---------------------------- MODULE Spec2Model ----------------------------
(***************************************************************************)
(* Event-driven trading engine: PriorityEventQueue (core/event_queue.py),  *)
(* Dispatcher (core/dispatcher.py), PortfolioState (portfolio/state.py),   *)
(* RealRiskManager (risk/engine.py), the execution handlers                *)
(* (execution/simulator.py) and the event loop of main.py.                 *)
(*                                                                         *)
(* Money is modelled exactly: prices, cash and equity are integers (in     *)
(* the smallest price unit of the inputs), and the two quantities the      *)
(* code obtains by a division or from one (avg_cost, realized_pnl) are     *)
(* exact rationals <<numerator, denominator>> in lowest terms.  Python's   *)
(* float rounding is not modelled.                                         *)
(***************************************************************************)
EXTENDS Integers, Sequences, FiniteSets, TLC

(***************************************************************************)
(* Bounds of the model.                                                    *)
(***************************************************************************)
\* calls of handle_fill / handle_market made on a bare PortfolioState
MaxCalls == 3
\* largest logical time (timestamps are 0..MaxTime)
MaxTime == 1
\* put() calls made on a bare PriorityEventQueue
MaxPuts == 4
\* initial_cash given to PortfolioState(...) in the ledger specification
InitialCash == 5
\* calls of handle_fill / handle_market / handle_signal made on a
\* PortfolioState with its RealRiskManager
MaxRiskSteps == 3
\* register_handler() and dispatch() calls made on a bare Dispatcher
MaxDispatcherSteps == 4
\* handle_order() calls made on a bare execution handler
MaxOrders == 2

\* money of a run is counted in thousandths of a dollar, which makes the
\* cost terms of RealisticExecutionHandler whole numbers
Dollars(d) == d * 1000

\* main(): PortfolioState(initial_cash=10000)
MainInitialCash == 10000
\* main(): RealRiskManager(fixed_quantity=10, max_drawdown=0.15,
\*         max_position_pct=0.30, max_total_exposure_pct=1.0)
MainFixedQuantity == 10
MainMaxDrawdownPct == 15
MainMaxPositionPct == 30
MainMaxTotalExposurePct == 100
\* main(): RealisticExecutionHandler(spread_pct=0.001,
\*         base_slippage_pct=0.0005, impact_factor=0.000001,
\*         slippage_volatility=0.0002), in parts per million
MainSpreadPpm == 1000
MainBaseSlippagePpm == 500
MainImpactPpm == 1
MainSlippageVolatilityPpm == 200

Symbols == {"AAPL", "MSFT"}
Directions == {"BUY", "SELL"}
Quantities == {1, 2}
Prices == {1, 2}
Times == 0..MaxTime

VARIABLES
    \* PortfolioState (portfolio/state.py)
    cash,                 \* self.cash
    positions,            \* self.positions: symbol -> [quantity, avg_cost]
    realized_pnl,         \* self.realized_pnl (rational)
    trades,               \* self.trades: sequence of FillEvents
    latest_prices,        \* self.latest_prices: symbol -> price
    equity_curve,         \* self.equity_curve: sequence of equities
    equity_by_timestamp,  \* self.equity_by_timestamp: timestamp -> equity
    \* history of the calls made on the PortfolioState: for each call the
    \* handler, its event, whether it raised, and the ledger before the call
    calls,
    \* PriorityEventQueue (core/event_queue.py)
    heap,                 \* self._heap: binary heap of
                          \*   <<timestamp, priority, counter, event>>
    counter,              \* self._counter
    \* history of the queue: the events put, in the order of the put()
    \* calls, and for each get() the entry it popped with the heap before
    \* and after it
    puts,
    gets,
    \* the calls of put() and get() that raised: for each the operation, the
    \* exception, and the heap, the counter and the numbers of events put
    \* and got before the call
    queue_errors,
    \* Dispatcher (core/dispatcher.py)
    handlers,             \* self._handlers: event type -> list of handlers
    \* history of the dispatcher: the (event type, handler) pairs registered,
    \* in the order of the register_handler() calls, and for each dispatch()
    \* its event, the registry before it, the handlers it invoked in the
    \* order of the invocations, and the list it returned
    registrations,
    dispatches,
    \* the strategies registered by main(): symbol -> "FLAT" / "LONG"
    strat_state,
    \* RealRiskManager (risk/engine.py)
    rejections,           \* self.rejections
    peak_equity,          \* self.peak_equity
    \* history of the calls of handle_signal: for each call its event, the
    \* ledger, the peak and the rejection list before it, the number of
    \* ledger calls made before it, and the list it returned
    evals,
    \* RealisticExecutionHandler (execution/simulator.py)
    total_spread_cost,    \* self.total_spread_cost
    total_slippage_cost,  \* self.total_slippage_cost
    trade_count,          \* self.trade_count
    \* history of the calls of handle_order, of either handler: for each call
    \* its event, the list it returned, the slippage drawn and the trade
    \* count before it
    handled_orders,
    \* the configuration main() builds the components with
    config,
    \* the event loop of main(): "running", "drained", or "failed" once an
    \* exception has left the loop (`error` names it)
    run_state,
    error,
    \* the outcome of an earlier run of main() over the same PRICE_DATA, kept
    \* to compare a second run with: None, or Some(RunSummary)
    first_run,
    \* the TradeMetrics object of the report: None until it is constructed,
    \* then Some of its fields (`raised` names the exception that left the
    \* constructor, "none" if none did)
    metrics,
    \* the EquityAnalyzer object of the report: None until it is constructed,
    \* then Some of its fields
    analyzer

ledgerVars == <<cash, positions, realized_pnl, trades, latest_prices,
                equity_curve, equity_by_timestamp, calls>>

queueVars == <<heap, counter, puts, gets, queue_errors>>

riskVars == <<rejections, peak_equity, evals>>

execVars == <<total_spread_cost, total_slippage_cost, trade_count,
              handled_orders>>

dispatchVars == <<handlers, registrations, dispatches>>

reportVars == <<metrics, analyzer>>

runVars == <<dispatchVars, strat_state, riskVars, execVars, config, first_run,
             reportVars, run_state, error>>

vars == <<ledgerVars, queueVars, runVars>>

(***************************************************************************)
(* Events (events/base.py).  One record shape for the four dataclasses;    *)
(* `price` is MarketEvent.price, SignalEvent.price, OrderEvent.price and   *)
(* FillEvent.fill_price; fields a class does not have hold "-" or 0.       *)
(***************************************************************************)
MarketEvent(t, s, p) ==
    [type |-> "MarketEvent", timestamp |-> t, symbol |-> s,
     direction |-> "-", quantity |-> 0, price |-> p]

SignalEvent(t, s, d, p) ==
    [type |-> "SignalEvent", timestamp |-> t, symbol |-> s,
     direction |-> d, quantity |-> 0, price |-> p]

OrderEvent(t, s, d, q, p) ==
    [type |-> "OrderEvent", timestamp |-> t, symbol |-> s,
     direction |-> d, quantity |-> q, price |-> p]

FillEvent(t, s, d, q, p) ==
    [type |-> "FillEvent", timestamp |-> t, symbol |-> s,
     direction |-> d, quantity |-> q, price |-> p]

(***************************************************************************)
(* Exact rational arithmetic for the values Python holds as floats.        *)
(***************************************************************************)
Abs(x) == IF x < 0 THEN -x ELSE x

RECURSIVE Gcd(_, _)
Gcd(a, b) == IF b = 0 THEN a ELSE Gcd(b, a % b)

\* the rational n/d (d # 0) in lowest terms with a positive denominator
RatOf[p \in Int \X Int] ==
    LET n == p[1]
        d == p[2]
        g == Gcd(Abs(n), Abs(d))
        s == IF d < 0 THEN -1 ELSE 1
    IN  <<(s * n) \div g, (s * d) \div g>>

Rat(n, d) == RatOf[<<n, d>>]

RInt(i) == <<i, 1>>
RAdd(a, b) == Rat(a[1] * b[2] + b[1] * a[2], a[2] * b[2])
RSub(a, b) == Rat(a[1] * b[2] - b[1] * a[2], a[2] * b[2])
RMulInt(a, k) == Rat(a[1] * k, a[2])
RDivInt(a, k) == Rat(a[1], a[2] * k)
RLeq(a, b) == a[1] * b[2] <= b[1] * a[2]

(***************************************************************************)
(* Dictionaries: functions on a finite key set.                            *)
(***************************************************************************)
EmptyDict == << >>

DictSet(d, k, v) ==
    [x \in (DOMAIN d) \cup {k} |-> IF x = k THEN v ELSE d[x]]

DictDel(d, k) == [x \in (DOMAIN d) \ {k} |-> d[x]]

(***************************************************************************)
(* PortfolioState (portfolio/state.py)                                     *)
(***************************************************************************)
Position(q, a) == [quantity |-> q, avg_cost |-> a]

\* signed_qty = qty if direction == "BUY" else -qty
SignedQty(direction, qty) == IF direction = "BUY" THEN qty ELSE -qty

\* cash_change = -signed_qty * price
CashChange(signed_qty, price) == (-signed_qty) * price

\* (mutant) the check looks at the cash held, not at the cash after the fill
InsufficientCashIgnoresChange(c, cash_change) == c < 0

\* if self.cash + cash_change < 0: raise ValueError
InsufficientCash(c, cash_change) == c + cash_change < 0

\* (mutant) realizes PnL on every fill of a symbol that is held
ReducesPositionAnySide(quantity, signed_qty) == quantity # 0

\* if position.quantity != 0 and (position.quantity * signed_qty < 0)
ReducesPosition(quantity, signed_qty) ==
    quantity # 0 /\ quantity * signed_qty < 0

Min(a, b) == IF a <= b THEN a ELSE b
Max(a, b) == IF a >= b THEN a ELSE b

\* (mutant) pnl_per_share taken as avg_cost - price
RealizedDeltaReversed(position, signed_qty, price) ==
    LET closing_qty == Min(Abs(position.quantity), Abs(signed_qty))
        pnl_per_share == RSub(position.avg_cost, RInt(price))
    IN  RMulInt(pnl_per_share,
                closing_qty * (IF position.quantity > 0 THEN 1 ELSE -1))

\* closing_qty * pnl_per_share * (1 if position.quantity > 0 else -1)
RealizedDelta(position, signed_qty, price) ==
    LET closing_qty == Min(Abs(position.quantity), Abs(signed_qty))
        pnl_per_share == RSub(RInt(price), position.avg_cost)
    IN  RMulInt(pnl_per_share,
                closing_qty * (IF position.quantity > 0 THEN 1 ELSE -1))

\* realized_pnl after the fill
NewRealizedPnl(rpnl, position, signed_qty, price) ==
    IF ReducesPosition(position.quantity, signed_qty)
    THEN RAdd(rpnl, RealizedDelta(position, signed_qty, price))
    ELSE rpnl

\* (mutant) a reduction leaves the average cost of what remains as it was
NewAvgCostKeptOnReduction(position, signed_qty, price) ==
    IF position.quantity = 0
    THEN RInt(price)
    ELSE IF ReducesPosition(position.quantity, signed_qty)
              /\ Abs(signed_qty) < Abs(position.quantity)
    THEN position.avg_cost
    ELSE LET total_cost == RAdd(RMulInt(position.avg_cost, position.quantity),
                                RInt(price * signed_qty))
         IN  RDivInt(total_cost, position.quantity + signed_qty)

\* new_avg_cost of a position that stays open
NewAvgCost(position, signed_qty, price) ==
    IF position.quantity = 0
    THEN RInt(price)
    ELSE LET total_cost == RAdd(RMulInt(position.avg_cost, position.quantity),
                                RInt(price * signed_qty))
         IN  RDivInt(total_cost, position.quantity + signed_qty)

\* (mutant) a position that returns to 0 is kept in the map
NewPositionsKeepsFlat(pos, symbol, signed_qty, price) ==
    LET position == IF symbol \in DOMAIN pos THEN pos[symbol]
                    ELSE Position(0, RInt(0))
        new_qty == position.quantity + signed_qty
    IN  DictSet(pos, symbol,
                Position(new_qty,
                         IF new_qty = 0 THEN RInt(0)
                         ELSE NewAvgCost(position, signed_qty, price)))

\* the positions map after the fill
NewPositions(pos, symbol, signed_qty, price) ==
    LET position == IF symbol \in DOMAIN pos THEN pos[symbol]
                    ELSE Position(0, RInt(0))
        new_qty == position.quantity + signed_qty
    IN  IF new_qty = 0
        THEN DictDel(pos, symbol)
        ELSE DictSet(pos, symbol,
                     Position(new_qty, NewAvgCost(position, signed_qty, price)))

RECURSIVE SumValues(_, _, _)
SumValues(syms, pos, prices) ==
    IF syms = {} THEN 0
    ELSE LET s == CHOOSE x \in syms : TRUE
         IN  pos[s].quantity * prices[s] + SumValues(syms \ {s}, pos, prices)

\* (mutant) every position is valued as if it were long
EquityCountsShortsLong(c, pos, prices) ==
    c + SumValues((DOMAIN pos) \cap (DOMAIN prices),
                  [s \in DOMAIN pos |->
                      Position(Abs(pos[s].quantity), pos[s].avg_cost)],
                  prices)

\* equity = cash + sum of pos.quantity * latest_prices[sym] over the
\* positions whose symbol is in latest_prices
Equity(c, pos, prices) ==
    c + SumValues((DOMAIN pos) \cap (DOMAIN prices), pos, prices)

Ledger ==
    [cash |-> cash, positions |-> positions, realized_pnl |-> realized_pnl,
     trades |-> trades, latest_prices |-> latest_prices,
     equity_curve |-> equity_curve,
     equity_by_timestamp |-> equity_by_timestamp]

Call(op, event, raised) ==
    [op |-> op, event |-> event, raised |-> raised, before |-> Ledger]

\* (mutant) handle_fill that keeps the equity an earlier call recorded for
\* the timestamp
HandleFillKeepsFirstSample(event) ==
    LET symbol == event.symbol
        price == event.price
        signed_qty == SignedQty(event.direction, event.quantity)
        cash_change == CashChange(signed_qty, price)
        prices1 == DictSet(latest_prices, symbol, price)
        position == IF symbol \in DOMAIN positions THEN positions[symbol]
                    ELSE Position(0, RInt(0))
        positions1 == NewPositions(positions, symbol, signed_qty, price)
        cash1 == cash + cash_change
    IN  /\ latest_prices' = prices1
        /\ trades' = Append(trades, event)
        /\ IF InsufficientCash(cash, cash_change)
           THEN /\ calls' = Append(calls, Call("handle_fill", event, TRUE))
                /\ UNCHANGED <<cash, positions, realized_pnl, equity_curve,
                               equity_by_timestamp>>
           ELSE /\ calls' = Append(calls, Call("handle_fill", event, FALSE))
                /\ realized_pnl' =
                       NewRealizedPnl(realized_pnl, position, signed_qty, price)
                /\ positions' = positions1
                /\ cash' = cash1
                /\ equity_by_timestamp' =
                       IF event.timestamp \in DOMAIN equity_by_timestamp
                       THEN equity_by_timestamp
                       ELSE DictSet(equity_by_timestamp, event.timestamp,
                                    Equity(cash1, positions1, prices1))
                /\ UNCHANGED equity_curve

\* (mutant) handle_fill that does not record the fill price as the latest
\* price of the symbol
HandleFillLeavesPrice(event) ==
    LET symbol == event.symbol
        price == event.price
        signed_qty == SignedQty(event.direction, event.quantity)
        cash_change == CashChange(signed_qty, price)
        position == IF symbol \in DOMAIN positions THEN positions[symbol]
                    ELSE Position(0, RInt(0))
        positions1 == NewPositions(positions, symbol, signed_qty, price)
        cash1 == cash + cash_change
    IN  /\ latest_prices' = latest_prices
        /\ trades' = Append(trades, event)
        /\ IF InsufficientCash(cash, cash_change)
           THEN /\ calls' = Append(calls, Call("handle_fill", event, TRUE))
                /\ UNCHANGED <<cash, positions, realized_pnl, equity_curve,
                               equity_by_timestamp>>
           ELSE /\ calls' = Append(calls, Call("handle_fill", event, FALSE))
                /\ realized_pnl' =
                       NewRealizedPnl(realized_pnl, position, signed_qty, price)
                /\ positions' = positions1
                /\ cash' = cash1
                /\ equity_by_timestamp' =
                       DictSet(equity_by_timestamp, event.timestamp,
                               Equity(cash1, positions1, latest_prices))
                /\ UNCHANGED equity_curve

\* PortfolioState.handle_fill(event)
HandleFill(event) ==
    LET symbol == event.symbol
        price == event.price
        signed_qty == SignedQty(event.direction, event.quantity)
        cash_change == CashChange(signed_qty, price)
        prices1 == DictSet(latest_prices, symbol, price)
        position == IF symbol \in DOMAIN positions THEN positions[symbol]
                    ELSE Position(0, RInt(0))
        positions1 == NewPositions(positions, symbol, signed_qty, price)
        cash1 == cash + cash_change
    IN  /\ latest_prices' = prices1
        /\ trades' = Append(trades, event)
        /\ IF InsufficientCash(cash, cash_change)
           THEN /\ calls' = Append(calls, Call("handle_fill", event, TRUE))
                /\ UNCHANGED <<cash, positions, realized_pnl, equity_curve,
                               equity_by_timestamp>>
           ELSE /\ calls' = Append(calls, Call("handle_fill", event, FALSE))
                /\ realized_pnl' =
                       NewRealizedPnl(realized_pnl, position, signed_qty, price)
                /\ positions' = positions1
                /\ cash' = cash1
                /\ equity_by_timestamp' =
                       DictSet(equity_by_timestamp, event.timestamp,
                               Equity(cash1, positions1, prices1))
                /\ UNCHANGED equity_curve

\* (mutant) handle_market that also books the marked equity as cash
HandleMarketBooksEquity(event) ==
    LET prices1 == DictSet(latest_prices, event.symbol, event.price)
        equity == Equity(cash, positions, prices1)
    IN  /\ latest_prices' = prices1
        /\ equity_by_timestamp' =
               DictSet(equity_by_timestamp, event.timestamp, equity)
        /\ equity_curve' = Append(equity_curve, equity)
        /\ calls' = Append(calls, Call("handle_market", event, FALSE))
        /\ cash' = equity
        /\ UNCHANGED <<positions, realized_pnl, trades>>

\* PortfolioState.handle_market(event)
HandleMarket(event) ==
    LET prices1 == DictSet(latest_prices, event.symbol, event.price)
        equity == Equity(cash, positions, prices1)
    IN  /\ latest_prices' = prices1
        /\ equity_by_timestamp' =
               DictSet(equity_by_timestamp, event.timestamp, equity)
        /\ equity_curve' = Append(equity_curve, equity)
        /\ calls' = Append(calls, Call("handle_market", event, FALSE))
        /\ UNCHANGED <<cash, positions, realized_pnl, trades>>

\* PortfolioState.__init__(initial_cash)
LedgerInit(initial_cash) ==
    /\ cash = initial_cash
    /\ positions = EmptyDict
    /\ realized_pnl = RInt(0)
    /\ trades = << >>
    /\ latest_prices = EmptyDict
    /\ equity_curve = << >>
    /\ equity_by_timestamp = EmptyDict
    /\ calls = << >>

(***************************************************************************)
(* PriorityEventQueue (core/event_queue.py)                                *)
(***************************************************************************)
\* (mutant) signals ranked ahead of market events
EventPrioritySignalFirst(event) ==
    CASE event.type = "SignalEvent" -> 0
      [] event.type = "MarketEvent" -> 1
      [] event.type = "OrderEvent" -> 2
      [] event.type = "FillEvent" -> 3

\* (mutant) fills ranked ahead of orders
EventPriorityFillFirst(event) ==
    CASE event.type = "MarketEvent" -> 0
      [] event.type = "SignalEvent" -> 1
      [] event.type = "OrderEvent" -> 3
      [] event.type = "FillEvent" -> 2
      [] OTHER -> 99

\* get_event_priority(event): EVENT_PRIORITIES.get(type(event), 99)
EventPriority(event) ==
    CASE event.type = "MarketEvent" -> 0
      [] event.type = "SignalEvent" -> 1
      [] event.type = "OrderEvent" -> 2
      [] event.type = "FillEvent" -> 3
      [] OTHER -> 99

\* (mutant) the heap key compared as (priority, timestamp, counter)
EntryLessPriorityFirst(a, b) ==
    \/ a[2] < b[2]
    \/ a[2] = b[2] /\ a[1] < b[1]
    \/ a[2] = b[2] /\ a[1] = b[1] /\ a[3] < b[3]

\* (mutant) the heap key compared as (timestamp, priority) only
EntryLessNoCounter(a, b) ==
    \/ a[1] < b[1]
    \/ a[1] = b[1] /\ a[2] < b[2]

\* a < b on the tuples (timestamp, priority, counter, event) the heap holds;
\* the counter is unique, so the comparison never reaches the event
EntryLess(a, b) ==
    \/ a[1] < b[1]
    \/ a[1] = b[1] /\ a[2] < b[2]
    \/ a[1] = b[1] /\ a[2] = b[2] /\ a[3] < b[3]

\* heapq._siftdown(heap, startpos, pos), positions counted from 0
RECURSIVE SiftDown(_, _, _, _)
SiftDown(h, startpos, pos, newitem) ==
    IF pos > startpos
    THEN LET parentpos == (pos - 1) \div 2
             parent == h[parentpos + 1]
         IN  IF EntryLess(newitem, parent)
             THEN SiftDown([h EXCEPT ![pos + 1] = parent],
                           startpos, parentpos, newitem)
             ELSE [h EXCEPT ![pos + 1] = newitem]
    ELSE [h EXCEPT ![pos + 1] = newitem]

\* heapq._siftup(heap, pos), positions counted from 0
RECURSIVE SiftUp(_, _, _, _)
SiftUp(h, startpos, pos, newitem) ==
    LET endpos == Len(h)
        leftpos == 2 * pos + 1
        rightpos == leftpos + 1
    IN  IF leftpos < endpos
        THEN LET childpos ==
                     IF rightpos < endpos
                        /\ ~EntryLess(h[leftpos + 1], h[rightpos + 1])
                     THEN rightpos ELSE leftpos
             IN  SiftUp([h EXCEPT ![pos + 1] = h[childpos + 1]],
                        startpos, childpos, newitem)
        ELSE SiftDown([h EXCEPT ![pos + 1] = newitem], startpos, pos, newitem)

\* heapq.heappush(heap, item)
HeapPush(h, item) == SiftDown(Append(h, item), 0, Len(h), item)

\* heapq.heappop(heap): the item returned and the heap left
HeapPop(h) ==
    LET lastelt == h[Len(h)]
        rest == SubSeq(h, 1, Len(h) - 1)
    IN  IF rest # << >>
        THEN [item |-> rest[1],
              heap |-> SiftUp([rest EXCEPT ![1] = lastelt], 0, 0, lastelt)]
        ELSE [item |-> lastelt, heap |-> rest]

\* the heap after PriorityEventQueue.put(event) with self._counter = c
PutEntry(h, c, event) ==
    HeapPush(h, <<event.timestamp, EventPriority(event), c, event>>)

\* the queue after put() of each event of a list, in order
RECURSIVE PutAll(_, _, _)
PutAll(h, c, events) ==
    IF events = << >> THEN [heap |-> h, counter |-> c]
    ELSE PutAll(PutEntry(h, c, events[1]), c + 1, Tail(events))

Range(f) == {f[i] : i \in DOMAIN f}

\* (mutant) the FillEvents among new_events are not put
QueuePutAllButFills(h, new_events) ==
    LET kept == SelectSeq(new_events, LAMBDA e : e.type # "FillEvent")
        q == PutAll(h, counter, kept)
    IN  /\ heap' = q.heap
        /\ counter' = q.counter
        /\ puts' = puts \o kept

\* PriorityEventQueue.put(event) for each event of new_events, in order
QueuePutAll(h, new_events) ==
    LET q == PutAll(h, counter, new_events)
    IN  /\ heap' = q.heap
        /\ counter' = q.counter
        /\ puts' = puts \o new_events

\* hasattr(event, 'timestamp')
HasTimestamp(event) == "timestamp" \in DOMAIN event

QueueError(op, exception) ==
    [op |-> op, error |-> exception, heap |-> heap, counter |-> counter,
     nputs |-> Len(puts), ngets |-> Len(gets)]

\* (mutant) put() that counts the event it refuses
QueuePutCountsRefused(event) ==
    IF HasTimestamp(event)
    THEN /\ QueuePutAll(heap, <<event>>)
         /\ UNCHANGED <<gets, queue_errors>>
    ELSE /\ queue_errors' = Append(queue_errors, QueueError("put", "ValueError"))
         /\ counter' = counter + 1
         /\ UNCHANGED <<heap, puts, gets>>

\* PriorityEventQueue.put(event)
QueuePut(event) ==
    IF HasTimestamp(event)
    THEN /\ QueuePutAll(heap, <<event>>)
         /\ UNCHANGED <<gets, queue_errors>>
    ELSE /\ queue_errors' = Append(queue_errors, QueueError("put", "ValueError"))
         /\ UNCHANGED <<heap, counter, puts, gets>>

GetRecord(popped) ==
    [entry |-> popped.item, before |-> Range(heap), after |-> Range(popped.heap)]

\* PriorityEventQueue.get() on a queue that is not empty
QueueGet ==
    /\ heap # << >>
    /\ LET popped == HeapPop(heap)
       IN  /\ heap' = popped.heap
           /\ gets' = Append(gets, GetRecord(popped))
    /\ UNCHANGED <<counter, puts, queue_errors>>

\* (mutant) get() on an empty queue that takes a sequence number
QueueGetEmptyTakesNumber ==
    /\ heap = << >>
    /\ queue_errors' = Append(queue_errors, QueueError("get", "IndexError"))
    /\ counter' = counter + 1
    /\ UNCHANGED <<heap, puts, gets>>

\* PriorityEventQueue.get() on an empty queue: IndexError
QueueGetEmpty ==
    /\ heap = << >>
    /\ queue_errors' = Append(queue_errors, QueueError("get", "IndexError"))
    /\ UNCHANGED <<heap, counter, puts, gets>>

\* PriorityEventQueue.is_empty()
IsEmpty == Len(heap) = 0

\* PriorityEventQueue.__init__()
QueueInit ==
    /\ heap = << >>
    /\ counter = 0
    /\ puts = << >>
    /\ gets = << >>
    /\ queue_errors = << >>

(***************************************************************************)
(* Dispatcher (core/dispatcher.py).  What a handler returns is a record:   *)
(* kind "None", or kind "list" with the events of the list.                *)
(***************************************************************************)
ReturnsNone == [kind |-> "None", events |-> << >>]
ReturnsList(events) == [kind |-> "list", events |-> events]

\* self._handlers.get(event_type, [])
HandlersFor(reg, event_type) ==
    IF event_type \in DOMAIN reg THEN reg[event_type] ELSE << >>

\* register_handler: self._handlers[event_type].append(handler), on a
\* defaultdict(list)
RegisterHandler(reg, event_type, handler) ==
    DictSet(reg, event_type, Append(HandlersFor(reg, event_type), handler))

\* (mutant) the loop stops at the first handler that returns events
RECURSIVE CollectFirstOnly(_)
CollectFirstOnly(results) ==
    IF results = << >> THEN << >>
    ELSE IF results[1].kind = "list" /\ results[1].events # << >>
    THEN results[1].events
    ELSE CollectFirstOnly(Tail(results))

\* dispatch: new_events after the loop, results[i] being what the i-th
\* handler returned: "if result: new_events.extend(result)"
RECURSIVE Collect(_)
Collect(results) ==
    IF results = << >> THEN << >>
    ELSE (IF results[1].kind = "list" /\ results[1].events # << >>
          THEN results[1].events
          ELSE << >>)
         \o Collect(Tail(results))

\* Dispatcher.__init__
DispatcherInit ==
    /\ handlers = EmptyDict
    /\ registrations = << >>
    /\ dispatches = << >>

(***************************************************************************)
(* Strategies (strategies/macd.py, as configured by STRATEGY_CONFIG).      *)
(* Whether the MACD line crosses its signal line on an observation is      *)
(* left open; what is kept is the FLAT/LONG state machine and the shape    *)
(* of the SignalEvent emitted.                                             *)
(***************************************************************************)
\* the possible results of strategy.handle_market(event) in state st, for
\* the strategy of event.symbol: the new state and the signals returned
StrategyOutcomes(st, event) ==
    {[state |-> st, signals |-> << >>]}
    \cup (IF st = "FLAT"
          THEN {[state |-> "LONG",
                 signals |-> <<SignalEvent(event.timestamp, event.symbol,
                                           "BUY", event.price)>>]}
          ELSE {[state |-> "FLAT",
                 signals |-> <<SignalEvent(event.timestamp, event.symbol,
                                           "SELL", event.price)>>]})

(***************************************************************************)
(* RealRiskManager (risk/engine.py).  A limit given as a fraction f is     *)
(* held as the percentage 100 f, and x / y > f is decided as               *)
(* 100 x > (100 f) y for y > 0.                                            *)
(***************************************************************************)
\* an Optional[...] parameter: None, or a value
None == {}
Some(v) == {v}
ValueOf(opt) == CHOOSE v \in opt : TRUE

\* RealRiskManager._get_current_equity
CurrentEquity(c, pos, prices) ==
    c + SumValues((DOMAIN pos) \cap (DOMAIN prices), pos, prices)

\* (mutant) the peak follows the equity down as well as up
NewPeakFollowsEquity(peak, current_equity) == current_equity

\* _get_current_drawdown: the peak after "if current_equity > peak_equity"
NewPeak(peak, current_equity) ==
    IF current_equity > peak THEN current_equity ELSE peak

\* (mutant) a drawdown equal to the limit is taken to exceed it
DrawdownExceededAtLimit(current_equity, peak, cfg) ==
    /\ peak > 0
    /\ Abs(current_equity - peak) * 100 >= cfg.max_drawdown_pct * peak
    /\ current_equity # peak

\* _check_drawdown_limit: abs(current_dd) > self.max_drawdown, with
\* current_dd = (current_equity - peak) / peak if peak > 0 else 0.0
DrawdownExceeded(current_equity, peak, cfg) ==
    /\ peak > 0
    /\ Abs(current_equity - peak) * 100 > cfg.max_drawdown_pct * peak

RECURSIVE SumExposure(_, _, _)
SumExposure(syms, pos, prices) ==
    IF syms = {} THEN 0
    ELSE LET s == CHOOSE x \in syms : TRUE
         IN  pos[s].quantity * (IF s \in DOMAIN prices THEN prices[s] ELSE 0)
             + SumExposure(syms \ {s}, pos, prices)

\* (mutant) the total exposure is not looked at
PositionSizeCheckNoExposure(signal, c, pos, prices, cfg) ==
    LET current_equity == CurrentEquity(c, pos, prices)
        order_value == cfg.fixed_quantity * signal.price
    IN  IF cfg.max_position_size # None
           /\ order_value > ValueOf(cfg.max_position_size)
        THEN "order value exceeds max position size"
        ELSE IF current_equity > 0
                /\ order_value * 100 > cfg.max_position_pct * current_equity
        THEN "position exceeds limit of equity"
        ELSE "ok"

\* (mutant) the value of the order is not added to the total exposure
PositionSizeCheckHeldExposure(signal, c, pos, prices, cfg) ==
    LET current_equity == CurrentEquity(c, pos, prices)
        order_value == cfg.fixed_quantity * signal.price
        total_exposure == SumExposure(DOMAIN pos, pos, prices)
    IN  IF cfg.max_position_size # None
           /\ order_value > ValueOf(cfg.max_position_size)
        THEN "order value exceeds max position size"
        ELSE IF current_equity > 0
                /\ order_value * 100 > cfg.max_position_pct * current_equity
        THEN "position exceeds limit of equity"
        ELSE IF current_equity > 0
                /\ total_exposure * 100
                       > cfg.max_total_exposure_pct * current_equity
        THEN "total exposure exceeds limit"
        ELSE "ok"

\* _check_position_size_limit: the reason of the failure, or "ok"
PositionSizeCheck(signal, c, pos, prices, cfg) ==
    LET current_equity == CurrentEquity(c, pos, prices)
        order_value == cfg.fixed_quantity * signal.price
        total_exposure ==
            SumExposure(DOMAIN pos, pos, prices)
            + (IF signal.direction = "BUY" THEN order_value ELSE 0)
    IN  IF cfg.max_position_size # None
           /\ order_value > ValueOf(cfg.max_position_size)
        THEN "order value exceeds max position size"
        ELSE IF current_equity > 0
                /\ order_value * 100 > cfg.max_position_pct * current_equity
        THEN "position exceeds limit of equity"
        ELSE IF current_equity > 0
                /\ total_exposure * 100
                       > cfg.max_total_exposure_pct * current_equity
        THEN "total exposure exceeds limit"
        ELSE "ok"

\* _check_cash_availability
CashCheck(signal, c, cfg) ==
    IF signal.direction = "BUY" /\ c < cfg.fixed_quantity * signal.price
    THEN "insufficient cash"
    ELSE "ok"

\* (mutant) the count is not compared when the symbol is new but whenever
\* the Intent is a BUY
PositionCountCheckAnyBuy(signal, pos, cfg) ==
    IF /\ cfg.max_positions # None
       /\ signal.direction = "BUY"
       /\ Cardinality(DOMAIN pos) >= ValueOf(cfg.max_positions)
    THEN "position count exceeds limit"
    ELSE "ok"

\* _check_position_count_limit
PositionCountCheck(signal, pos, cfg) ==
    IF /\ cfg.max_positions # None
       /\ signal.direction = "BUY"
       /\ signal.symbol \notin DOMAIN pos
       /\ Cardinality(DOMAIN pos) >= ValueOf(cfg.max_positions)
    THEN "position count exceeds limit"
    ELSE "ok"

\* (mutant) the cash check made ahead of the position size check
RiskChecksCashFirst(signal, c, pos, prices, peak, cfg) ==
    LET current_equity == CurrentEquity(c, pos, prices)
    IN  << <<"drawdown",
             IF DrawdownExceeded(current_equity,
                                 NewPeak(peak, current_equity), cfg)
             THEN "drawdown exceeds limit" ELSE "ok">>,
           <<"cash", CashCheck(signal, c, cfg)>>,
           <<"position_size", PositionSizeCheck(signal, c, pos, prices, cfg)>>,
           <<"position_count", PositionCountCheck(signal, pos, cfg)>> >>

\* handle_signal: the list `checks`, each check with its outcome
RiskChecks(signal, c, pos, prices, peak, cfg) ==
    LET current_equity == CurrentEquity(c, pos, prices)
    IN  << <<"drawdown",
             IF DrawdownExceeded(current_equity,
                                 NewPeak(peak, current_equity), cfg)
             THEN "drawdown exceeds limit" ELSE "ok">>,
           <<"position_size", PositionSizeCheck(signal, c, pos, prices, cfg)>>,
           <<"cash", CashCheck(signal, c, cfg)>>,
           <<"position_count", PositionCountCheck(signal, pos, cfg)>> >>

\* handle_signal: the first check of the list that did not pass, or 0
FirstFailed(checks) ==
    IF \E i \in DOMAIN checks : checks[i][2] # "ok"
    THEN CHOOSE i \in DOMAIN checks :
             /\ checks[i][2] # "ok"
             /\ \A j \in 1..(i - 1) : checks[j][2] = "ok"
    ELSE 0

Rejection(signal, check) ==
    [timestamp |-> signal.timestamp, symbol |-> signal.symbol,
     direction |-> signal.direction, price |-> signal.price,
     reason |-> check[2], check |-> check[1]]

\* (mutant) an order for one unit whatever fixed_quantity is
ApprovedOrderOfOneUnit(signal, cfg) ==
    OrderEvent(signal.timestamp, signal.symbol, signal.direction,
               1, signal.price)

\* handle_signal: the OrderEvent built once every check has passed
ApprovedOrder(signal, cfg) ==
    OrderEvent(signal.timestamp, signal.symbol, signal.direction,
               cfg.fixed_quantity, signal.price)

\* the list `checks` of handle_signal(event) in the current state, built
\* after the assignment to portfolio.latest_prices
SignalChecks(event) ==
    RiskChecks(event, cash, positions,
               DictSet(latest_prices, event.symbol, event.price),
               peak_equity, config)

\* what handle_signal(event) returns in the current state
SignalResult(event) ==
    IF FirstFailed(SignalChecks(event)) # 0
    THEN << >>
    ELSE <<ApprovedOrder(event, config)>>

Evaluation(event, new_events) ==
    [event |-> event, before |-> Ledger, peak |-> peak_equity,
     rejections |-> rejections, ncalls |-> Len(calls),
     returned |-> new_events]

\* (mutant) handle_signal that also reserves the cash of an approved BUY
HandleSignalReservesCash(event, new_events) ==
    LET prices1 == DictSet(latest_prices, event.symbol, event.price)
        checks == SignalChecks(event)
        failed == FirstFailed(checks)
    IN  /\ latest_prices' = prices1
        /\ peak_equity' =
               NewPeak(peak_equity, CurrentEquity(cash, positions, prices1))
        /\ IF failed # 0
           THEN /\ rejections' =
                       Append(rejections, Rejection(event, checks[failed]))
                /\ new_events = << >>
                /\ cash' = cash
           ELSE /\ rejections' = rejections
                /\ new_events = <<ApprovedOrder(event, config)>>
                /\ cash' = IF event.direction = "BUY"
                           THEN cash - config.fixed_quantity * event.price
                           ELSE cash
        /\ evals' = Append(evals, Evaluation(event, new_events))
        /\ UNCHANGED <<positions, realized_pnl, trades, equity_curve,
                       equity_by_timestamp, calls>>

\* (mutant) handle_signal that never returns from a rejected Intent
HandleSignalHaltsOnRejection(event, new_events) ==
    LET prices1 == DictSet(latest_prices, event.symbol, event.price)
        checks == SignalChecks(event)
        failed == FirstFailed(checks)
    IN  /\ failed = 0
        /\ latest_prices' = prices1
        /\ peak_equity' =
               NewPeak(peak_equity, CurrentEquity(cash, positions, prices1))
        /\ rejections' = rejections
        /\ new_events = <<ApprovedOrder(event, config)>>
        /\ evals' = Append(evals, Evaluation(event, new_events))
        /\ UNCHANGED <<cash, positions, realized_pnl, trades, equity_curve,
                       equity_by_timestamp, calls>>

\* RealRiskManager.handle_signal(event); new_events is what it returns
HandleSignal(event, new_events) ==
    LET prices1 == DictSet(latest_prices, event.symbol, event.price)
        checks == SignalChecks(event)
        failed == FirstFailed(checks)
    IN  /\ latest_prices' = prices1
        /\ peak_equity' =
               NewPeak(peak_equity, CurrentEquity(cash, positions, prices1))
        /\ IF failed # 0
           THEN /\ rejections' =
                       Append(rejections, Rejection(event, checks[failed]))
                /\ new_events = << >>
           ELSE /\ rejections' = rejections
                /\ new_events = <<ApprovedOrder(event, config)>>
        /\ evals' = Append(evals, Evaluation(event, new_events))
        /\ UNCHANGED <<cash, positions, realized_pnl, trades, equity_curve,
                       equity_by_timestamp, calls>>

\* RealRiskManager.__init__
RiskInit(cfg) ==
    /\ rejections = << >>
    /\ peak_equity = cfg.initial_cash
    /\ evals = << >>

(***************************************************************************)
(* Execution handlers (execution/simulator.py)                             *)
(***************************************************************************)
\* price * k / 1000000 for a rate of k parts per million
Ppm(price, k) == (price * k) \div 1000000

\* the draws of random.uniform(-slippage_volatility, slippage_volatility)
\* the model takes: the two ends of the interval
SlippageDraws(cfg) ==
    {-cfg.slippage_volatility_ppm, cfg.slippage_volatility_ppm}

\* spread_amount = mid_price * self.spread_pct / 2
SpreadAmount(order, cfg) == Ppm(order.price, cfg.spread_ppm) \div 2

\* total_slippage = base_slippage + size_impact + random_slippage
TotalSlippage(order, r, cfg) ==
    Ppm(order.price, cfg.base_slippage_ppm)
    + Ppm(order.price, cfg.impact_ppm * order.quantity)
    + Ppm(order.price, r)

\* RealisticExecutionHandler._calculate_fill_price, for the draw r
RealisticFillPrice(order, r, cfg) ==
    IF order.direction = "BUY"
    THEN order.price + SpreadAmount(order, cfg) + TotalSlippage(order, r, cfg)
    ELSE order.price - SpreadAmount(order, cfg) - TotalSlippage(order, r, cfg)

\* (mutant) a fill of one unit whatever the order's quantity
BaseFillOfOneUnit(event) ==
    FillEvent(event.timestamp, event.symbol, event.direction, 1, event.price)

\* the FillEvent ExecutionHandler.handle_order builds
BaseFill(event) ==
    FillEvent(event.timestamp, event.symbol, event.direction, event.quantity,
              event.price)

\* the terms of _calculate_fill_price as the rationals they stand for
\* (prices, costs and totals above are kept to the thousandth of a dollar)
ExactSpreadAmount(order, cfg) == Rat(order.price * cfg.spread_ppm, 2000000)

ExactTotalSlippage(order, r, cfg) ==
    RAdd(RAdd(Rat(order.price * cfg.base_slippage_ppm, 1000000),
              Rat(order.price * cfg.impact_ppm * order.quantity, 1000000)),
         Rat(order.price * r, 1000000))

\* (mutant) a Sell is filled above the reference price, as a Buy is
CalculateFillPriceAlwaysAbove(order, r, cfg) ==
    RAdd(RAdd(RInt(order.price), ExactSpreadAmount(order, cfg)),
         ExactTotalSlippage(order, r, cfg))

\* RealisticExecutionHandler._calculate_fill_price for the draw r, exactly
CalculateFillPrice(order, r, cfg) ==
    IF order.direction = "BUY"
    THEN RAdd(RAdd(RInt(order.price), ExactSpreadAmount(order, cfg)),
              ExactTotalSlippage(order, r, cfg))
    ELSE RSub(RSub(RInt(order.price), ExactSpreadAmount(order, cfg)),
              ExactTotalSlippage(order, r, cfg))

\* ExecutionHandler.handle_order(event) and
\* RealisticExecutionHandler.handle_order(event); new_events is the result,
\* draw the value random.uniform returned (0 where there is none)
HandleOrder(event, new_events) ==
    IF config.execution = "ExecutionHandler"
    THEN /\ new_events = <<BaseFill(event)>>
         /\ handled_orders' =
                Append(handled_orders,
                       [event |-> event, returned |-> new_events, draw |-> 0,
                        count |-> trade_count])
         /\ UNCHANGED <<total_spread_cost, total_slippage_cost, trade_count>>
    ELSE \E r \in SlippageDraws(config) :
            /\ new_events =
                   <<FillEvent(event.timestamp, event.symbol,
                               event.direction, event.quantity,
                               RealisticFillPrice(event, r, config))>>
            /\ handled_orders' =
                   Append(handled_orders,
                          [event |-> event, returned |-> new_events,
                           draw |-> r, count |-> trade_count])
            /\ total_spread_cost' =
                   total_spread_cost
                   + SpreadAmount(event, config) * event.quantity
            /\ total_slippage_cost' =
                   total_slippage_cost
                   + TotalSlippage(event, r, config) * event.quantity
            /\ trade_count' = trade_count + 1

\* the lists handle_order(event) of the configured handler may return
OrderResults(event) ==
    IF config.execution = "ExecutionHandler"
    THEN {<<BaseFill(event)>>}
    ELSE {<<FillEvent(event.timestamp, event.symbol, event.direction,
                      event.quantity, RealisticFillPrice(event, r, config))>> :
             r \in SlippageDraws(config)}

\* RealisticExecutionHandler.__init__
ExecInit ==
    /\ total_spread_cost = 0
    /\ total_slippage_cost = 0
    /\ trade_count = 0
    /\ handled_orders = << >>

(***************************************************************************)
(* main(): wiring, seeding and the event loop (main.py)                    *)
(***************************************************************************)
\* the components as main() configures them, with either execution handler
MainConfig(execution) ==
    [initial_cash |-> Dollars(MainInitialCash),
     fixed_quantity |-> MainFixedQuantity,
     max_drawdown_pct |-> MainMaxDrawdownPct,
     max_position_size |-> None,
     max_position_pct |-> MainMaxPositionPct,
     max_total_exposure_pct |-> MainMaxTotalExposurePct,
     max_positions |-> None,
     execution |-> execution,
     spread_ppm |-> MainSpreadPpm,
     base_slippage_ppm |-> MainBaseSlippagePpm,
     impact_ppm |-> MainImpactPpm,
     slippage_volatility_ppm |-> MainSlippageVolatilityPpm]

ExecutionKinds == {"ExecutionHandler", "RealisticExecutionHandler"}

\* the prices PRICE_DATA may hold
RunPrices == {Dollars(100), Dollars(200)}

\* the order in which PRICE_DATA.items() yields the symbols
SymbolOrder == <<"AAPL", "MSFT">>

\* PRICE_DATA: a list of MaxTime + 1 prices for every symbol
PriceData == [Symbols -> [Times -> RunPrices]]

\* the MarketEvents main() creates, in the order it puts them: for each
\* index t, one event per symbol
RECURSIVE SeedEvents(_, _, _)
SeedEvents(data, t, k) ==
    IF t > MaxTime THEN << >>
    ELSE IF k > Len(SymbolOrder) THEN SeedEvents(data, t + 1, 1)
    ELSE <<MarketEvent(t, SymbolOrder[k], data[SymbolOrder[k]][t])>>
         \o SeedEvents(data, t, k + 1)

\* the handlers main() registers
PortfolioHandleMarket == <<"portfolio", "handle_market">>
PortfolioHandleFill == <<"portfolio", "handle_fill">>
StrategyHandleMarket(s) == <<"strategy.handle_market", s>>
RiskHandleSignal == <<"risk", "handle_signal">>
ExecutionHandleOrder == <<"execution", "handle_order">>

RECURSIVE StrategyRegistrations(_)
StrategyRegistrations(k) ==
    IF k > Len(SymbolOrder) THEN << >>
    ELSE <<<<"MarketEvent", StrategyHandleMarket(SymbolOrder[k])>>>>
         \o StrategyRegistrations(k + 1)

\* the register_handler calls of main(), in order; main() registers
\* portfolio.handle_market ahead of the strategies (ledger_first), the
\* other order is the one of tests/test_risk_manager.py
MainRegistrations(ledger_first) ==
    (IF ledger_first
     THEN <<<<"MarketEvent", PortfolioHandleMarket>>>>
          \o StrategyRegistrations(1)
     ELSE StrategyRegistrations(1)
          \o <<<<"MarketEvent", PortfolioHandleMarket>>>>)
    \o << <<"SignalEvent", RiskHandleSignal>>,
          <<"OrderEvent", ExecutionHandleOrder>>,
          <<"FillEvent", PortfolioHandleFill>> >>

RECURSIVE RegisterAll(_, _)
RegisterAll(reg, regs) ==
    IF regs = << >> THEN reg
    ELSE RegisterAll(RegisterHandler(reg, regs[1][1], regs[1][2]), Tail(regs))

\* the components that are not in use stay as constructed
IdleRun ==
    /\ DispatcherInit
    /\ strat_state = [s \in Symbols |-> "FLAT"]
    /\ config = MainConfig("ExecutionHandler")
    /\ RiskInit(config)
    /\ ExecInit
    /\ run_state = "idle"
    /\ error = "none"
    /\ first_run = None
    /\ metrics = None
    /\ analyzer = None

\* main() up to the event loop
InitRun ==
    /\ \E execution \in ExecutionKinds : config = MainConfig(execution)
    /\ LedgerInit(config.initial_cash)
    /\ RiskInit(config)
    /\ ExecInit
    /\ strat_state = [s \in Symbols |-> "FLAT"]
    /\ \E data \in PriceData :
          LET events == SeedEvents(data, 0, 1)
              q == PutAll(<< >>, 0, events)
          IN  /\ heap = q.heap
              /\ counter = q.counter
              /\ puts = events
    /\ gets = << >>
    /\ queue_errors = << >>
    /\ \E ledger_first \in BOOLEAN :
          /\ registrations = MainRegistrations(ledger_first)
          /\ handlers = RegisterAll(EmptyDict, registrations)
    /\ dispatches = << >>
    /\ run_state = "running"
    /\ error = "none"
    /\ first_run = None
    /\ metrics = None
    /\ analyzer = None

\* one turn of the loop: queue.get(), dispatcher.dispatch(event) to the
\* handlers registered for the type, queue.put(e) for each new event
Running == run_state = "running" /\ heap # << >>

NextEvent == HeapPop(heap).item[4]

\* the queue after the get() of this turn and the put() of new_events
\* (every event of a run has a timestamp)
Reschedule(new_events) ==
    \E popped \in {HeapPop(heap)} :
        /\ QueuePutAll(popped.heap, new_events)
        /\ gets' = Append(gets, GetRecord(popped))
        /\ UNCHANGED queue_errors

\* what the handlers registered for MarketEvent return for the event, the
\* i-th entry for the i-th handler: portfolio.handle_market returns [], a
\* strategy returns its signals, [] for a symbol that is not its own
MarketResults(event, signals) ==
    LET hs == HandlersFor(handlers, "MarketEvent")
    IN  [i \in 1..Len(hs) |->
            IF hs[i] = StrategyHandleMarket(event.symbol)
            THEN ReturnsList(signals)
            ELSE ReturnsList(<< >>)]

\* MarketEvent: portfolio.handle_market and every strategy.handle_market,
\* in registration order
DispatchMarket ==
    /\ Running
    /\ \E event \in {NextEvent} :
          /\ event.type = "MarketEvent"
          /\ HandleMarket(event)
          /\ \E out \in StrategyOutcomes(strat_state[event.symbol], event) :
                /\ strat_state' = [strat_state EXCEPT ![event.symbol] = out.state]
                /\ Reschedule(Collect(MarketResults(event, out.signals)))
    /\ UNCHANGED <<riskVars, execVars, dispatchVars, config, first_run, reportVars, run_state, error>>

\* SignalEvent: risk.handle_signal
DispatchSignal ==
    /\ Running
    /\ \E event \in {NextEvent} :
          /\ event.type = "SignalEvent"
          /\ \E new_events \in {SignalResult(event)} :
                /\ HandleSignal(event, new_events)
                /\ Reschedule(new_events)
    /\ UNCHANGED <<strat_state, execVars, dispatchVars, config, first_run, reportVars, run_state, error>>

\* OrderEvent: execution.handle_order
DispatchOrder ==
    /\ Running
    /\ \E event \in {NextEvent} :
          /\ event.type = "OrderEvent"
          /\ \E new_events \in OrderResults(event) :
                /\ HandleOrder(event, new_events)
                /\ Reschedule(new_events)
    /\ UNCHANGED <<ledgerVars, strat_state, riskVars, dispatchVars, config, first_run, reportVars, run_state, error>>

\* FillEvent: portfolio.handle_fill; its ValueError leaves the loop
DispatchFill ==
    /\ Running
    /\ \E event \in {NextEvent} :
          /\ event.type = "FillEvent"
          /\ HandleFill(event)
          /\ Reschedule(<< >>)
          /\ IF InsufficientCash(cash, CashChange(SignedQty(event.direction,
                                                             event.quantity),
                                                  event.price))
             THEN run_state' = "failed" /\ error' = "ValueError"
             ELSE UNCHANGED <<run_state, error>>
    /\ UNCHANGED <<strat_state, riskVars, execVars, dispatchVars, config, first_run, reportVars>>

\* while not queue.is_empty(): the loop ends on the empty queue
Drain ==
    /\ run_state = "running"
    /\ heap = << >>
    /\ run_state' = "drained"
    /\ UNCHANGED <<ledgerVars, queueVars, strat_state, riskVars, execVars,
                   dispatchVars, config, first_run, reportVars, error>>

NextRun ==
    \/ DispatchMarket
    \/ DispatchSignal
    \/ DispatchOrder
    \/ DispatchFill
    \/ Drain

SpecRun == InitRun /\ [][NextRun]_vars

\* the loop of main() runs without pause: while a turn of it or its exit
\* is possible, one is taken
SpecRunFair == SpecRun /\ WF_vars(NextRun)

(***************************************************************************)
(* Ledger specification: any sequence of fills and market events applied   *)
(* directly to a PortfolioState, with non-decreasing timestamps.           *)
(***************************************************************************)
LastTime == IF calls = << >> THEN 0 ELSE calls[Len(calls)].event.timestamp

NextTimes == {LastTime, LastTime + 1} \cap Times

ApplyFill ==
    /\ Len(calls) < MaxCalls
    /\ \E t \in NextTimes, s \in Symbols, d \in Directions,
          q \in Quantities, p \in Prices :
          HandleFill(FillEvent(t, s, d, q, p))
    /\ UNCHANGED <<queueVars, runVars>>

ApplyMarket ==
    /\ Len(calls) < MaxCalls
    /\ \E t \in NextTimes, s \in Symbols, p \in Prices :
          HandleMarket(MarketEvent(t, s, p))
    /\ UNCHANGED <<queueVars, runVars>>

InitLedger == LedgerInit(InitialCash) /\ QueueInit /\ IdleRun

NextLedger == ApplyFill \/ ApplyMarket

SpecLedger == InitLedger /\ [][NextLedger]_vars

(***************************************************************************)
(* Risk specification: a PortfolioState and the RealRiskManager built on   *)
(* it, under several configurations; any sequence of handle_fill,          *)
(* handle_market and handle_signal calls.  The fills are of the            *)
(* configured fixed_quantity, as the fills of sized orders are.            *)
(***************************************************************************)
\* RealRiskManager(portfolio, fixed_quantity, max_drawdown,
\*                 max_position_size, max_position_pct,
\*                 max_total_exposure_pct, max_positions)
\* on PortfolioState(InitialCash)
RiskConfig(quantity, drawdown, size, position, exposure, count) ==
    [MainConfig("ExecutionHandler") EXCEPT
        !.initial_cash = InitialCash,
        !.fixed_quantity = quantity,
        !.max_drawdown_pct = drawdown,
        !.max_position_size = size,
        !.max_position_pct = position,
        !.max_total_exposure_pct = exposure,
        !.max_positions = count]

\* the defaults of RealRiskManager.__init__
DefaultRiskConfig == RiskConfig(10, 10, None, 20, 100, None)

\* the configurations explored: the defaults; a tight one with a position
\* count limit; a loose one with an absolute cap; one that tolerates any
\* drawdown; one that tolerates the loss of half the peak
RiskConfigs ==
    {DefaultRiskConfig,
     RiskConfig(1, 20, None, 20, 50, Some(1)),
     RiskConfig(2, 20, Some(2), 1000, 1000, None),
     RiskConfig(5, 100, None, 20, 100, None),
     RiskConfig(5, 50, None, 100, 100, None)}

RiskSteps == Len(calls) + Len(evals)

RiskFill ==
    /\ RiskSteps < MaxRiskSteps
    /\ \E s \in Symbols, d \in Directions, p \in Prices :
          HandleFill(FillEvent(0, s, d, config.fixed_quantity, p))
    /\ UNCHANGED <<queueVars, strat_state, riskVars, execVars, dispatchVars, config, first_run, reportVars,
                   run_state, error>>

RiskMarket ==
    /\ RiskSteps < MaxRiskSteps
    /\ \E s \in Symbols, p \in Prices : HandleMarket(MarketEvent(0, s, p))
    /\ UNCHANGED <<queueVars, strat_state, riskVars, execVars, dispatchVars, config, first_run, reportVars,
                   run_state, error>>

RiskSignal ==
    /\ RiskSteps < MaxRiskSteps
    /\ \E s \in Symbols, d \in Directions, p \in Prices :
          LET event == SignalEvent(0, s, d, p)
          IN  HandleSignal(event, SignalResult(event))
    /\ UNCHANGED <<queueVars, strat_state, execVars, dispatchVars, config, first_run, reportVars, run_state,
                   error>>

InitRisk ==
    /\ config \in RiskConfigs
    /\ LedgerInit(config.initial_cash)
    /\ QueueInit
    /\ RiskInit(config)
    /\ ExecInit
    /\ DispatcherInit
    /\ strat_state = [s \in Symbols |-> "FLAT"]
    /\ run_state = "idle"
    /\ error = "none"
    /\ first_run = None
    /\ metrics = None
    /\ analyzer = None

NextRisk == RiskFill \/ RiskMarket \/ RiskSignal

SpecRisk == InitRisk /\ [][NextRisk]_vars

(***************************************************************************)
(* Dispatcher specification: any sequence of register_handler() and        *)
(* dispatch() calls on a Dispatcher, with handlers that return None, an    *)
(* empty list, one event or two events.                                    *)
(***************************************************************************)
StubHandlers ==
    {<<"stub", "none">>, <<"stub", "empty">>, <<"stub", "one">>,
     <<"stub", "two">>}

\* handler(event) for a stub handler
StubResult(handler, event) ==
    CASE handler[2] = "none" -> ReturnsNone
      [] handler[2] = "empty" -> ReturnsList(<< >>)
      [] handler[2] = "one" ->
            ReturnsList(<<SignalEvent(event.timestamp, event.symbol, "BUY",
                                      event.price)>>)
      [] handler[2] = "two" ->
            ReturnsList(<<OrderEvent(event.timestamp, event.symbol, "BUY",
                                     1, event.price),
                          OrderEvent(event.timestamp, event.symbol, "SELL",
                                     2, event.price)>>)

\* the event types handlers are registered for, and the events dispatched
\* (no handler is ever registered for OrderEvent)
RegisteredTypes == {"MarketEvent", "SignalEvent"}
DispatchedEvents ==
    {MarketEvent(0, "AAPL", 1), SignalEvent(0, "AAPL", "BUY", 1),
     OrderEvent(0, "AAPL", "BUY", 1, 1)}

DispatcherSteps == Len(registrations) + Len(dispatches)

Register ==
    /\ DispatcherSteps < MaxDispatcherSteps
    /\ \E event_type \in RegisteredTypes, handler \in StubHandlers :
          /\ handlers' = RegisterHandler(handlers, event_type, handler)
          /\ registrations' = Append(registrations, <<event_type, handler>>)
    /\ UNCHANGED <<dispatches, ledgerVars, queueVars, strat_state, riskVars,
                   execVars, config, first_run, reportVars, run_state, error>>

Dispatch ==
    /\ DispatcherSteps < MaxDispatcherSteps
    /\ \E event \in DispatchedEvents :
          LET hs == HandlersFor(handlers, event.type)
              results == [i \in 1..Len(hs) |-> StubResult(hs[i], event)]
          IN  dispatches' =
                  Append(dispatches,
                         [event |-> event, registry |-> handlers,
                          nregs |-> Len(registrations), invoked |-> hs,
                          returned |-> Collect(results)])
    /\ UNCHANGED <<handlers, registrations, ledgerVars, queueVars,
                   strat_state, riskVars, execVars, config, first_run, reportVars, run_state, error>>

InitDispatcher == LedgerInit(InitialCash) /\ QueueInit /\ IdleRun

NextDispatcher == Register \/ Dispatch

SpecDispatcher == InitDispatcher /\ [][NextDispatcher]_vars

(***************************************************************************)
(* Execution specification: any sequence of handle_order() calls on an     *)
(* ExecutionHandler or on a RealisticExecutionHandler.                     *)
(***************************************************************************)
\* the orders handled: prices in dollars
Orders ==
    {OrderEvent(t, s, d, q, Dollars(p)) :
        t \in Times, s \in Symbols, d \in Directions, q \in Quantities,
        p \in Prices}

Execute ==
    /\ Len(handled_orders) < MaxOrders
    /\ \E event \in Orders : \E new_events \in OrderResults(event) :
          HandleOrder(event, new_events)
    /\ UNCHANGED <<ledgerVars, queueVars, dispatchVars, strat_state, riskVars,
                   config, first_run, reportVars, run_state, error>>

InitExecution ==
    /\ \E execution \in ExecutionKinds : config = MainConfig(execution)
    /\ LedgerInit(InitialCash)
    /\ QueueInit
    /\ DispatcherInit
    /\ RiskInit(config)
    /\ ExecInit
    /\ strat_state = [s \in Symbols |-> "FLAT"]
    /\ run_state = "idle"
    /\ error = "none"
    /\ first_run = None
    /\ metrics = None
    /\ analyzer = None

NextExecution == Execute

SpecExecution == InitExecution /\ [][NextExecution]_vars

(***************************************************************************)
(* Queue specification: any sequence of put() and get() calls on a         *)
(* PriorityEventQueue.                                                     *)
(***************************************************************************)
\* the events put: all four types at time 0, two symbols for the
\* Observation, and an Observation and an Intent at time 1
QueueEvents ==
    {MarketEvent(0, s, 1) : s \in Symbols}
    \cup {SignalEvent(0, "AAPL", "BUY", 1), OrderEvent(0, "AAPL", "BUY", 1, 1),
          FillEvent(0, "AAPL", "BUY", 1, 1)}
    \cup {MarketEvent(1, "AAPL", 1), SignalEvent(1, "AAPL", "BUY", 1)}

Put ==
    /\ counter < MaxPuts
    /\ \E e \in QueueEvents : QueuePut(e)
    /\ UNCHANGED <<ledgerVars, runVars>>

Get ==
    /\ QueueGet
    /\ UNCHANGED <<ledgerVars, runVars>>

InitQueue == QueueInit /\ LedgerInit(InitialCash) /\ IdleRun

NextQueue == Put \/ Get

SpecQueue == InitQueue /\ [][NextQueue]_vars

(***************************************************************************)
(* Queue error specification: any sequence of put() and get() calls on a   *)
(* PriorityEventQueue, the get() calls made on the empty queue and the     *)
(* put() calls of an object without a timestamp included.                  *)
(***************************************************************************)
\* put() calls that inserted an event
MaxCheckedPuts == 2
\* put() calls and get() calls that raised
MaxQueueErrors == 2

\* an object that has no timestamp attribute
Untimed == [type |-> "object", symbol |-> "AAPL"]

CheckedEvents ==
    {MarketEvent(0, "AAPL", 1), FillEvent(0, "AAPL", "BUY", 1, 1),
     MarketEvent(1, "AAPL", 1), Untimed}

PutChecked ==
    /\ \E e \in CheckedEvents :
          /\ IF HasTimestamp(e) THEN counter < MaxCheckedPuts
                                ELSE Len(queue_errors) < MaxQueueErrors
          /\ QueuePut(e)
    /\ UNCHANGED <<ledgerVars, runVars>>

GetChecked ==
    /\ QueueGet
    /\ UNCHANGED <<ledgerVars, runVars>>

GetEmpty ==
    /\ Len(queue_errors) < MaxQueueErrors
    /\ QueueGetEmpty
    /\ UNCHANGED <<ledgerVars, runVars>>

InitQueueErrors == QueueInit /\ LedgerInit(InitialCash) /\ IdleRun

NextQueueErrors == PutChecked \/ GetChecked \/ GetEmpty

SpecQueueErrors == InitQueueErrors /\ [][NextQueueErrors]_vars

(***************************************************************************)
(* Seeding specification: main() run twice over the same PRICE_DATA with   *)
(* the base ExecutionHandler and a RealRiskManager whose limits are        *)
(* fractions in [0, 1].  The first run puts the MarketEvents of an index   *)
(* in the order of SymbolOrder, the second in the reverse order; a         *)
(* strategy decides in the second run as it did in the first.              *)
(***************************************************************************)
\* the configurations: any drawdown tolerated, a position and the total
\* exposure allowed up to the whole equity, orders of 2 units or of 1, and
\* for the latter also with max_positions = 1
SeedingConfigs ==
    {RiskConfig(2, 100, None, 100, 100, None),
     RiskConfig(1, 100, None, 100, 100, None),
     RiskConfig(1, 100, None, 100, 100, Some(1))}

SeedingData == [Symbols -> [Times -> Prices]]

Reversed(seq) == [i \in 1..Len(seq) |-> seq[Len(seq) + 1 - i]]

\* the MarketEvents of main(), with PRICE_DATA.items() yielding the
\* symbols in the given order
RECURSIVE SeedEventsIn(_, _, _, _)
SeedEventsIn(order, data, t, k) ==
    IF t > MaxTime THEN << >>
    ELSE IF k > Len(order) THEN SeedEventsIn(order, data, t + 1, 1)
    ELSE <<MarketEvent(t, order[k], data[order[k]][t])>>
         \o SeedEventsIn(order, data, t, k + 1)

\* what is compared of a run once its loop has ended, the PRICE_DATA it ran
\* over and the signals its strategies emitted
RunSummary(data) ==
    [cash |-> cash, positions |-> positions, realized_pnl |-> realized_pnl,
     equity_samples |-> equity_by_timestamp, rejected |-> Range(rejections),
     run_state |-> run_state, data |-> data,
     signals |-> {e \in Range(puts) : e.type = "SignalEvent"}]

\* PRICE_DATA as the MarketEvents put show it
SeededData ==
    [s \in Symbols |-> [t \in Times |->
        (CHOOSE e \in Range(puts) : /\ e.type = "MarketEvent"
                                    /\ e.symbol = s
                                    /\ e.timestamp = t).price]]

RunEnded == run_state \in {"drained", "failed"}

InitSeeding ==
    /\ config \in SeedingConfigs
    /\ LedgerInit(config.initial_cash)
    /\ RiskInit(config)
    /\ ExecInit
    /\ strat_state = [s \in Symbols |-> "FLAT"]
    /\ \E data \in SeedingData :
          LET events == SeedEventsIn(SymbolOrder, data, 0, 1)
              q == PutAll(<< >>, 0, events)
          IN  /\ heap = q.heap
              /\ counter = q.counter
              /\ puts = events
    /\ gets = << >>
    /\ queue_errors = << >>
    /\ registrations = MainRegistrations(TRUE)
    /\ handlers = RegisterAll(EmptyDict, registrations)
    /\ dispatches = << >>
    /\ run_state = "running"
    /\ error = "none"
    /\ first_run = None
    /\ metrics = None
    /\ analyzer = None

\* a turn of the first run's loop on a MarketEvent
FirstMarket == first_run = None /\ DispatchMarket

\* a turn of the second run's loop on a MarketEvent: the strategy emits a
\* signal exactly if it emitted one for the observation in the first run
SecondMarket ==
    /\ first_run # None
    /\ DispatchMarket
    /\ (puts' # puts) <=>
           \E e \in ValueOf(first_run).signals :
               /\ e.symbol = NextEvent.symbol
               /\ e.timestamp = NextEvent.timestamp

\* main() again, once the first run has ended: new components, the same
\* PRICE_DATA yielding its symbols in the reverse order
StartSecondRun ==
    /\ first_run = None
    /\ RunEnded
    /\ first_run' = Some(RunSummary(SeededData))
    /\ cash' = config.initial_cash
    /\ positions' = EmptyDict
    /\ realized_pnl' = RInt(0)
    /\ trades' = << >>
    /\ latest_prices' = EmptyDict
    /\ equity_curve' = << >>
    /\ equity_by_timestamp' = EmptyDict
    /\ calls' = << >>
    /\ rejections' = << >>
    /\ peak_equity' = config.initial_cash
    /\ evals' = << >>
    /\ handled_orders' = << >>
    /\ strat_state' = [s \in Symbols |-> "FLAT"]
    /\ LET events == SeedEventsIn(Reversed(SymbolOrder), SeededData, 0, 1)
           q == PutAll(<< >>, 0, events)
       IN  /\ heap' = q.heap
           /\ counter' = q.counter
           /\ puts' = events
    /\ gets' = << >>
    /\ run_state' = "running"
    /\ error' = "none"
    /\ UNCHANGED <<total_spread_cost, total_slippage_cost, trade_count,
                   queue_errors, dispatchVars, config, reportVars>>

NextSeeding ==
    \/ FirstMarket
    \/ SecondMarket
    \/ DispatchSignal
    \/ DispatchOrder
    \/ DispatchFill
    \/ Drain
    \/ StartSecondRun

SpecSeeding == InitSeeding /\ [][NextSeeding]_vars

(***************************************************************************)
(* Costed run specification: the loop of main() with the                   *)
(* RealisticExecutionHandler of main() and a RealRiskManager that allows   *)
(* one position and the total exposure up to the whole equity.             *)
(***************************************************************************)
\* the cash the runs start with, in dollars: the value of one order at the
\* lower price of PRICE_DATA, and twice as much
CostedCash == {MainFixedQuantity * 100, 2 * MainFixedQuantity * 100}

CostedConfigs ==
    {[MainConfig("RealisticExecutionHandler") EXCEPT
         !.initial_cash = Dollars(c), !.max_position_pct = 100] :
        c \in CostedCash}

InitCosted ==
    /\ config \in CostedConfigs
    /\ LedgerInit(config.initial_cash)
    /\ RiskInit(config)
    /\ ExecInit
    /\ strat_state = [s \in Symbols |-> "FLAT"]
    /\ \E data \in PriceData :
          LET events == SeedEvents(data, 0, 1)
              q == PutAll(<< >>, 0, events)
          IN  /\ heap = q.heap
              /\ counter = q.counter
              /\ puts = events
    /\ gets = << >>
    /\ queue_errors = << >>
    /\ registrations = MainRegistrations(TRUE)
    /\ handlers = RegisterAll(EmptyDict, registrations)
    /\ dispatches = << >>
    /\ run_state = "running"
    /\ error = "none"
    /\ first_run = None
    /\ metrics = None
    /\ analyzer = None

SpecCosted == InitCosted /\ [][NextRun]_vars

(***************************************************************************)
(* The report (analysis/metrics.py): TradeMetrics over a list of fills.    *)
(***************************************************************************)
MaxReportFills == 4

\* the loop of _compute_trade_pnls from fills[i] on; entry is None, or Some
\* of the entry_price and quantity the last BUY left
RECURSIVE ComputeTradePnlsFrom(_, _, _, _)
ComputeTradePnlsFrom(fills, i, trade_pnls, entry) ==
    IF i > Len(fills)
    THEN [trade_pnls |-> trade_pnls, raised |-> "none"]
    ELSE LET fill == fills[i]
         IN  IF fill.direction = "BUY"
             THEN ComputeTradePnlsFrom(
                      fills, i + 1, trade_pnls,
                      Some([entry_price |-> fill.price,
                            quantity |-> fill.quantity]))
             ELSE IF entry = None
                  THEN [trade_pnls |-> << >>, raised |-> "AssertionError"]
                  ELSE ComputeTradePnlsFrom(
                           fills, i + 1,
                           Append(trade_pnls,
                                  (fill.price - ValueOf(entry).entry_price)
                                  * ValueOf(entry).quantity),
                           None)

\* TradeMetrics._compute_trade_pnls
ComputeTradePnls(fills) == ComputeTradePnlsFrom(fills, 1, << >>, None)

\* what tells one fill from another: symbol, direction, quantity, price
FillChoices == Symbols \X Directions \X Quantities \X Prices

\* the list of the fills chosen, one per logical time from 0 on
ReportFills(chosen) ==
    [i \in DOMAIN chosen |->
        FillEvent(i - 1, chosen[i][1], chosen[i][2], chosen[i][3], chosen[i][4])]

\* TradeMetrics(fills, initial_cash, final_cash, final_equity)
NewTradeMetrics ==
    /\ metrics = None
    /\ \E n \in 0..MaxReportFills :
          \E chosen \in [1..n -> FillChoices] :
             \E fills \in {ReportFills(chosen)} :
                \E result \in {ComputeTradePnls(fills)} :
                   metrics' = Some([fills |-> fills,
                                    trade_pnls |-> result.trade_pnls,
                                    raised |-> result.raised])
    /\ UNCHANGED <<ledgerVars, queueVars, dispatchVars, strat_state, riskVars,
                   execVars, config, first_run, analyzer, run_state, error>>

InitMetrics == LedgerInit(InitialCash) /\ QueueInit /\ IdleRun

NextMetrics == NewTradeMetrics

SpecMetrics == InitMetrics /\ [][NextMetrics]_vars

(***************************************************************************)
(* The report (analysis/equity_analyzer.py): EquityAnalyzer over an equity *)
(* curve, constructed with no fills as the drawdown test constructs it     *)
(* (the fills are read for trade_markers and holding_periods only).  The   *)
(* Sharpe ratio, a square root of floats, is left out of the object.       *)
(***************************************************************************)
MaxCurveLen == 3

\* equity values around the initial cash
CurveValues == (InitialCash - 2)..(InitialCash + 2)

RMin(a, b) == IF RLeq(a, b) THEN a ELSE b

\* min(values) of a non-empty list of rationals
RECURSIVE MinOf(_)
MinOf(values) ==
    IF Len(values) = 1 THEN values[1]
    ELSE RMin(values[1], MinOf(Tail(values)))

\* the loop of run() from market_events[i] on (i counts from 1): the
\* drawdown_curve it leaves
RECURSIVE DrawdownCurveFrom(_, _, _, _, _)
DrawdownCurveFrom(n_events, curve, i, peak, drawdown_curve) ==
    IF i > n_events THEN drawdown_curve
    ELSE IF i <= Len(curve)
         THEN LET new_peak == Max(peak, curve[i])
              IN  DrawdownCurveFrom(
                      n_events, curve, i + 1, new_peak,
                      Append(drawdown_curve,
                             Rat(curve[i] - new_peak, new_peak)))
         ELSE DrawdownCurveFrom(n_events, curve, i + 1, peak, drawdown_curve)

\* the drawdown_curve run() leaves on the analyzer a
DrawdownCurve(a) ==
    DrawdownCurveFrom(a.n_events, a.equity_curve, 1, a.initial_cash, << >>)

\* EquityAnalyzer(market_events, fills, equity_curve, initial_cash)
NewEquityAnalyzer ==
    /\ analyzer = None
    /\ \E n \in 0..MaxCurveLen, m \in 0..MaxCurveLen :
          \E curve \in [1..n -> CurveValues] :
             analyzer' = Some([n_events |-> m,
                               equity_curve |-> curve,
                               initial_cash |-> InitialCash,
                               drawdown_curve |-> << >>,
                               max_drawdown |-> RInt(0),
                               ran |-> FALSE])
    /\ UNCHANGED <<ledgerVars, queueVars, dispatchVars, strat_state, riskVars,
                   execVars, config, first_run, metrics, run_state, error>>

\* EquityAnalyzer.run()
RunAnalyzer ==
    /\ analyzer # None
    /\ ~ValueOf(analyzer).ran
    /\ \E a \in analyzer :
          IF a.equity_curve = << >>
          THEN analyzer' = Some([a EXCEPT !.ran = TRUE])
          ELSE \E curve \in {DrawdownCurve(a)} :
                  analyzer' =
                     Some([a EXCEPT
                             !.drawdown_curve = curve,
                             !.max_drawdown =
                                 IF curve # << >> THEN MinOf(curve)
                                 ELSE RInt(0),
                             !.ran = TRUE])
    /\ UNCHANGED <<ledgerVars, queueVars, dispatchVars, strat_state, riskVars,
                   execVars, config, first_run, metrics, run_state, error>>

InitAnalyzer == LedgerInit(InitialCash) /\ QueueInit /\ IdleRun

NextAnalyzer == NewEquityAnalyzer \/ RunAnalyzer

SpecAnalyzer == InitAnalyzer /\ [][NextAnalyzer]_vars

(***************************************************************************)
(* Properties of PortfolioState, stated on the last call(s) made.          *)
(***************************************************************************)
NCalls == Len(calls)
LastCall == calls[NCalls]
PrevCall == calls[NCalls - 1]
LastWasFill == NCalls > 0 /\ LastCall.op = "handle_fill"
LastWasAcceptedFill == LastWasFill /\ ~LastCall.raised
LastWasMarket == NCalls > 0 /\ LastCall.op = "handle_market"

HeldQty(ledger, s) ==
    IF s \in DOMAIN ledger.positions THEN ledger.positions[s].quantity ELSE 0

\* C4: starting from initial_cash >= 0, the cash of the ledger is >= 0
\* after every call of handle_fill, whether it returned or raised.
C4_CashNeverNegative == cash >= 0

\* a fill was refused after earlier buys had spent part of the cash
C4_Witness ==
    /\ LastWasFill /\ LastCall.raised
    /\ cash < InitialCash /\ cash >= 0

\* C5: when handle_fill raises for insufficient cash, every field of the
\* ledger is exactly what it was before the call.
C5_RejectedFillLeavesLedgerUntouched ==
    (LastWasFill /\ LastCall.raised) =>
        Ledger = LastCall.before

\* C6: after every call of handle_fill no symbol is present in positions
\* with quantity 0.
C6_NoZeroPosition ==
    \A s \in DOMAIN positions : positions[s].quantity # 0

\* an accepted fill brought a held position back to 0 and its record is gone
C6_Witness ==
    /\ LastWasAcceptedFill
    /\ HeldQty(LastCall.before, LastCall.event.symbol) # 0
    /\ LastCall.event.symbol \notin DOMAIN positions

\* the last two calls are a Buy of N at P and then a Sell of N at P' of one
\* symbol, the Buy made with no position in the symbol and cash >= N*P
RoundTrip ==
    /\ NCalls >= 2
    /\ PrevCall.op = "handle_fill" /\ LastCall.op = "handle_fill"
    /\ PrevCall.event.direction = "BUY" /\ LastCall.event.direction = "SELL"
    /\ PrevCall.event.symbol = LastCall.event.symbol
    /\ PrevCall.event.quantity = LastCall.event.quantity
    /\ PrevCall.event.symbol \notin DOMAIN PrevCall.before.positions
    /\ PrevCall.before.cash >=
           PrevCall.event.quantity * PrevCall.event.price

\* C7: a Buy of N at P followed by a Sell of N at P' on a ledger with no
\* position in the symbol and cash >= N*P: both are accepted, cash is the
\* starting cash - N*P in between and + N*(P'-P) at the end, realized_pnl
\* grows by exactly N*(P'-P), and the symbol has no position record.
C7_RoundTrip ==
    RoundTrip =>
        LET start == PrevCall.before
            mid == LastCall.before
            sym == LastCall.event.symbol
            N == LastCall.event.quantity
            P == PrevCall.event.price
            P2 == LastCall.event.price
        IN  /\ ~PrevCall.raised /\ ~LastCall.raised
            /\ mid.cash = start.cash - N * P
            /\ mid.positions[sym] = Position(N, RInt(P))
            /\ cash = start.cash + N * (P2 - P)
            /\ realized_pnl = RAdd(start.realized_pnl, RInt(N * (P2 - P)))
            /\ sym \notin DOMAIN positions

\* a round trip sold at another price than it was bought at
C7_Witness ==
    /\ RoundTrip
    /\ LastCall.event.price # PrevCall.event.price
    /\ realized_pnl # PrevCall.before.realized_pnl

\* C8: an accepted fill changes realized_pnl only when the held quantity
\* of its symbol is non-zero and of the opposite sign to the fill, and then
\* by min(|held|, |fill|) * (fill_price - avg_cost) * sign(held); opening
\* or extending a position leaves realized_pnl unchanged.
C8_RealizedPnlOnlyOnReduction ==
    LastWasAcceptedFill =>
        LET pre == LastCall.before
            e == LastCall.event
            held == HeldQty(pre, e.symbol)
            signed == IF e.direction = "BUY" THEN e.quantity ELSE -e.quantity
            opposite == (held > 0 /\ signed < 0) \/ (held < 0 /\ signed > 0)
            closing == IF Abs(held) < Abs(signed) THEN Abs(held)
                       ELSE Abs(signed)
        IN  IF opposite
            THEN LET avg == pre.positions[e.symbol].avg_cost
                     per_share == RSub(RInt(e.price), avg)
                     signHeld == IF held > 0 THEN 1 ELSE -1
                 IN  realized_pnl =
                         RAdd(pre.realized_pnl,
                              RMulInt(per_share, closing * signHeld))
            ELSE realized_pnl = pre.realized_pnl

\* an accepted fill reduced a position at another price than its avg_cost
C8_Witness ==
    /\ LastWasAcceptedFill
    /\ HeldQty(LastCall.before, LastCall.event.symbol)
           * SignedQty(LastCall.event.direction, LastCall.event.quantity) < 0
    /\ realized_pnl # LastCall.before.realized_pnl

\* C9: handle_market never raises and leaves cash, positions, realized_pnl
\* and the fill history unchanged, also for a repeated observation of the
\* same symbol and price.
C9_MarketIsPureMarkToMarket ==
    LastWasMarket =>
        /\ ~LastCall.raised
        /\ cash = LastCall.before.cash
        /\ positions = LastCall.before.positions
        /\ realized_pnl = LastCall.before.realized_pnl
        /\ trades = LastCall.before.trades

\* the same observation was handled twice in a row while a position was
\* open, and its price moved the marked equity away from the cash
C9_Witness ==
    /\ NCalls >= 2 /\ LastWasMarket
    /\ PrevCall.op = "handle_market"
    /\ PrevCall.event.symbol = LastCall.event.symbol
    /\ PrevCall.event.price = LastCall.event.price
    /\ LastCall.event.symbol \in DOMAIN positions
    /\ equity_curve[Len(equity_curve)] # cash

RECURSIVE MarkedValue(_)
MarkedValue(syms) ==
    IF syms = {} THEN 0
    ELSE LET s == CHOOSE x \in syms : TRUE
         IN  (IF s \in DOMAIN positions /\ s \in DOMAIN latest_prices
              THEN positions[s].quantity * latest_prices[s] ELSE 0)
             + MarkedValue(syms \ {s})

\* C10: after an accepted fill or an observation with logical time T,
\* equity_by_timestamp[T] = cash + the sum of quantity * latest price over
\* the open positions with a known latest price, on the resulting ledger.
C10_EquitySampleIsMarkToMarket ==
    (NCalls > 0 /\ ~LastCall.raised) =>
        /\ LastCall.event.timestamp \in DOMAIN equity_by_timestamp
        /\ equity_by_timestamp[LastCall.event.timestamp] =
               cash + MarkedValue(Symbols)

\* an accepted fill left a long and a short position open
C10_Witness ==
    /\ LastWasAcceptedFill
    /\ \E s1, s2 \in DOMAIN positions :
          positions[s1].quantity > 0 /\ positions[s2].quantity < 0

(***************************************************************************)
(* Properties of PriorityEventQueue, stated on the last get() made.        *)
(***************************************************************************)
\* the precedence of the event types: Observation < Intent < Order < Fill
TypePrecedence(type) ==
    CASE type = "MarketEvent" -> 1
      [] type = "SignalEvent" -> 2
      [] type = "OrderEvent" -> 3
      [] type = "FillEvent" -> 4

\* x is not after y under (logical_time, type precedence, insertion sequence)
NotAfter(x, y) ==
    LET ex == x[4]
        ey == y[4]
    IN  \/ ex.timestamp < ey.timestamp
        \/ /\ ex.timestamp = ey.timestamp
           /\ TypePrecedence(ex.type) < TypePrecedence(ey.type)
        \/ /\ ex.timestamp = ey.timestamp
           /\ TypePrecedence(ex.type) = TypePrecedence(ey.type)
           /\ x[3] <= y[3]

\* C2: every queued entry carries the event of the put() call whose number
\* is its insertion sequence, and get() removes and returns the queued
\* entry that is minimal under (logical_time, type precedence Observation <
\* Intent < Order < Fill, insertion sequence); equal time and type come out
\* in the order they were put.
C2_GetReturnsMinimal ==
    /\ Cardinality(Range(heap)) = Len(heap)
    /\ \A x \in Range(heap) :
          x[3] \in 0..(Len(puts) - 1) /\ puts[x[3] + 1] = x[4]
    /\ gets # << >> =>
          LET g == gets[Len(gets)]
          IN  /\ g.entry \in g.before
              /\ g.after = g.before \ {g.entry}
              /\ \A x \in g.before : NotAfter(g.entry, x)

\* four or more events were queued together, among them two Observations
\* of one logical_time and different symbols, put in the order [A, B];
\* the last two get() calls returned A and then B
C2_Witness ==
    /\ Len(gets) >= 2
    /\ LET g1 == gets[Len(gets) - 1]
           g2 == gets[Len(gets)]
       IN  /\ Cardinality(g1.before) >= 4
           /\ g2.entry \in g1.before
           /\ g1.entry[4].type = "MarketEvent"
           /\ g2.entry[4].type = "MarketEvent"
           /\ g1.entry[4].timestamp = g2.entry[4].timestamp
           /\ g1.entry[4].symbol # g2.entry[4].symbol
           /\ g1.entry[3] < g2.entry[3]

(***************************************************************************)
(* Properties of a run of the event loop, stated on the events dispatched  *)
(* so far (the entries returned by get(), in order).                       *)
(***************************************************************************)
Dispatched(i) == gets[i].entry[4]

DispatchedAt(t, type) ==
    {i \in DOMAIN gets :
        Dispatched(i).timestamp = t /\ Dispatched(i).type = type}

\* C1: among the events of one logical_time, every Observation is
\* dispatched before every Intent, every Intent before every Order and
\* every Order before every Fill: no event is dispatched after an event of
\* the same logical_time whose type comes later in the precedence.
\* Stated on the event dispatched last against every event dispatched
\* before it; the events dispatched so far only grow.
C1_TypeOrderWithinLogicalTime ==
    gets # << >> =>
        LET last == Dispatched(Len(gets))
        IN  \A i \in 1..(Len(gets) - 1) :
                Dispatched(i).timestamp = last.timestamp =>
                    TypePrecedence(Dispatched(i).type)
                        <= TypePrecedence(last.type)

\* a drained run in which two Observations, two Intents, two Orders and
\* two Fills shared a logical_time
C1_Witness ==
    /\ run_state = "drained"
    /\ \E t \in Times :
          \A type \in {"MarketEvent", "SignalEvent", "OrderEvent", "FillEvent"} :
              Cardinality(DispatchedAt(t, type)) >= 2

\* C3: the logical_times of successively dispatched events never decrease,
\* and the queue never holds an event older than the last one dispatched:
\* everything of time T, the Fills included, is processed before anything
\* later.
C3_LogicalTimeNeverDecreases ==
    /\ \A i \in 1..(Len(gets) - 1) :
          Dispatched(i).timestamp <= Dispatched(i + 1).timestamp
    /\ gets # << >> =>
          \A x \in Range(heap) : Dispatched(Len(gets)).timestamp <= x[1]

\* a drained run that filled orders at time 0 and again at a later time
C3_Witness ==
    /\ run_state = "drained"
    /\ DispatchedAt(0, "FillEvent") # {}
    /\ \E t \in Times : t > 0 /\ DispatchedAt(t, "FillEvent") # {}

(***************************************************************************)
(* Properties of RealRiskManager, stated on the handle_signal calls made   *)
(* so far and on the state the last of them left.                          *)
(***************************************************************************)
NEvals == Len(evals)
LastEval == evals[NEvals]
\* the last call made on either object was a handle_signal
LastWasEval == NEvals > 0 /\ LastEval.ncalls = Len(calls)
Approved(e) == e.returned # << >>
\* the rejection records the evaluation e appended
Recorded(e, rejections_after) ==
    SubSeq(rejections_after, Len(e.rejections) + 1, Len(rejections_after))

\* C12 (as stated): handle_signal, approving or rejecting, leaves every
\* field of the ledger as it was: cash, positions, realized_pnl,
\* latest_prices, trades and the equity samples.
C12_EvaluationLeavesLedgerUntouched ==
    LastWasEval => Ledger = LastEval.before

\* C12 (amended): handle_signal leaves cash, positions, realized_pnl, trades
\* and the equity samples as they were, and of latest_prices it writes
\* only the entry of the signal's symbol, which becomes the signal's price.
C12_EvaluationWritesOnlyReferencePrice ==
    LastWasEval =>
        LET b == LastEval.before
            e == LastEval.event
        IN  /\ cash = b.cash
            /\ positions = b.positions
            /\ realized_pnl = b.realized_pnl
            /\ trades = b.trades
            /\ equity_curve = b.equity_curve
            /\ equity_by_timestamp = b.equity_by_timestamp
            /\ latest_prices = DictSet(b.latest_prices, e.symbol, e.price)

\* an approval and a rejection have both been made, the last call being an
\* evaluation that changed the price the ledger holds for the symbol
C12_Witness ==
    /\ LastWasEval
    /\ \E i \in 1..NEvals : Approved(evals[i])
    /\ \E i \in 1..NEvals : ~Approved(evals[i])
    /\ LastEval.event.symbol \in DOMAIN LastEval.before.latest_prices
    /\ latest_prices # LastEval.before.latest_prices

\* the prices, the equity and the outcome of each check at the evaluation e
EvalPrices(e) == DictSet(e.before.latest_prices, e.event.symbol, e.event.price)
EvalEquity(e) == CurrentEquity(e.before.cash, e.before.positions, EvalPrices(e))
EvalChecks(e) ==
    RiskChecks(e.event, e.before.cash, e.before.positions, EvalPrices(e),
               e.peak, config)
OutcomeIn(checks, name) ==
    LET i == CHOOSE j \in DOMAIN checks : checks[j][1] = name
    IN  checks[i][2]
Outcome(e, name) == OutcomeIn(EvalChecks(e), name)
Fails(e, name) == Outcome(e, name) # "ok"
RejectedBy(e, name) ==
    /\ ~Approved(e)
    /\ Len(Recorded(e, rejections)) = 1
    /\ Recorded(e, rejections)[1].check = name

\* the order of the checks
CheckOrder == <<"drawdown", "position_size", "cash", "position_count">>
FailingChecks(e) == {i \in DOMAIN CheckOrder : Fails(e, CheckOrder[i])}
EarliestFailing(e) ==
    CHOOSE i \in FailingChecks(e) : \A j \in FailingChecks(e) : i <= j

\* C13: an Intent that fails one or more checks yields no Order and exactly
\* one rejection record, which carries the Intent's fields and the name and
\* reason of the earliest failing check in the order drawdown,
\* position_size, cash, position_count; apart from that record the state
\* left is the one any evaluation leaves (peak raised to the current
\* equity, reference price written), whatever the later checks give.
C13_RejectsOnFirstFailure ==
    LastWasEval =>
        LET e == LastEval
            checks == EvalChecks(e)
            outcome == [i \in DOMAIN CheckOrder |->
                           OutcomeIn(checks, CheckOrder[i])]
            failing == {i \in DOMAIN CheckOrder : outcome[i] # "ok"}
            first == CHOOSE i \in failing : \A j \in failing : i <= j
        IN  failing # {} =>
                /\ e.returned = << >>
                /\ rejections =
                       Append(e.rejections,
                              [timestamp |-> e.event.timestamp,
                               symbol |-> e.event.symbol,
                               direction |-> e.event.direction,
                               price |-> e.event.price,
                               reason |-> outcome[first],
                               check |-> CheckOrder[first]])
                /\ peak_equity = NewPeak(e.peak, EvalEquity(e))
                /\ C12_EvaluationWritesOnlyReferencePrice

\* an Intent that failed the position size check and the cash check
C13_Witness ==
    /\ LastWasEval
    /\ Cardinality(FailingChecks(LastEval)) >= 2
    /\ Fails(LastEval, "cash")
    /\ RejectedBy(LastEval, "position_size")

RECURSIVE OrdersEmitted(_)
OrdersEmitted(n) ==
    IF n = 0 THEN 0 ELSE Len(evals[n].returned) + OrdersEmitted(n - 1)

\* C14: an evaluation either returns exactly one Order, of the configured
\* fixed_quantity and with the Intent's timestamp, symbol, direction and
\* price, leaving the rejection log as it was, or returns no Order and
\* appends exactly one record to the rejection log; so orders emitted plus
\* rejections recorded equals Intents evaluated.
C14_OneOrderOrOneRejection ==
    /\ OrdersEmitted(NEvals) + Len(rejections) = NEvals
    /\ LastWasEval =>
          LET e == LastEval
          IN  \/ /\ e.returned =
                        <<[type |-> "OrderEvent",
                           timestamp |-> e.event.timestamp,
                           symbol |-> e.event.symbol,
                           direction |-> e.event.direction,
                           quantity |-> config.fixed_quantity,
                           price |-> e.event.price]>>
                 /\ rejections = e.rejections
              \/ /\ e.returned = << >>
                 /\ Len(rejections) = Len(e.rejections) + 1
                 /\ SubSeq(rejections, 1, Len(e.rejections)) = e.rejections

\* three evaluations, approvals and rejections among them, the last one an
\* approval of more than one unit
C14_Witness ==
    /\ LastWasEval
    /\ NEvals = MaxRiskSteps
    /\ Approved(LastEval)
    /\ config.fixed_quantity > 1
    /\ rejections # << >>

RECURSIVE MaxOf(_)
MaxOf(seq) ==
    IF Len(seq) = 1 THEN seq[1]
    ELSE LET m == MaxOf(Tail(seq))
         IN  IF seq[1] > m THEN seq[1] ELSE m

\* (peak - current) / peak > max_drawdown
DrawdownBeyondLimit(peak, current) ==
    (peak - current) * 100 > config.max_drawdown_pct * peak

\* C15: when the mark-to-market equity of the ledger has reached P at an
\* applied Observation (P the largest entry of equity_curve), and the
\* equity E at the evaluation of an Intent has (P - E) / P > max_drawdown,
\* the Intent is rejected with check = "drawdown", whether or not an Intent
\* was evaluated at the peak.  (A higher equity reached at a Fill only
\* makes the drawdown larger.)
C15_DrawdownAgainstRunningPeak ==
    (LastWasEval /\ LastEval.before.equity_curve # << >>) =>
        LET e == LastEval
            P == MaxOf(e.before.equity_curve)
            E == EvalEquity(e)
        IN  (P > 0 /\ DrawdownBeyondLimit(P, E)) => RejectedBy(e, "drawdown")

\* the other limits of the configuration are the defaults of RealRiskManager
OtherLimitsAtDefaults ==
    config = [DefaultRiskConfig EXCEPT
                 !.fixed_quantity = config.fixed_quantity]

\* C16: with no position held and cash below fixed_quantity * price, the
\* other limits at their defaults, a BUY Intent yields no Order and one
\* rejection record whose check is "cash".
C16_InsufficientCashRejectedByCashCheck ==
    (/\ LastWasEval
     /\ OtherLimitsAtDefaults
     /\ LastEval.before.positions = EmptyDict
     /\ LastEval.event.direction = "BUY"
     /\ LastEval.before.cash
            < config.fixed_quantity * LastEval.event.price) =>
        (LastEval.returned = << >> /\ RejectedBy(LastEval, "cash"))

\* the largest equity seen at the first n evaluations, initial_cash if none
RECURSIVE PeakSeen(_)
PeakSeen(n) ==
    IF n = 0 THEN config.initial_cash
    ELSE LET p == PeakSeen(n - 1)
             x == EvalEquity(evals[n])
         IN  IF x > p THEN x ELSE p

\* C17: an Intent is rejected by the drawdown check exactly when
\* (peak - current) / peak > max_drawdown, where current is the equity at
\* the evaluation and peak the largest equity seen at this and the earlier
\* evaluations, or initial_cash if that is larger; a drawdown equal to the
\* limit does not reject.
C17_DrawdownRejectsStrictlyBeyondLimit ==
    LastWasEval =>
        (RejectedBy(LastEval, "drawdown")
            <=> DrawdownBeyondLimit(PeakSeen(NEvals), EvalEquity(LastEval)))

\* an evaluation whose drawdown from a peak raised by an earlier evaluation
\* is exactly the limit, and which the drawdown check let pass
C17_Witness ==
    /\ LastWasEval
    /\ NEvals >= 2
    /\ PeakSeen(NEvals) > config.initial_cash
    /\ EvalEquity(LastEval) < PeakSeen(NEvals)
    /\ (PeakSeen(NEvals) - EvalEquity(LastEval)) * 100
           = config.max_drawdown_pct * PeakSeen(NEvals)
    /\ ~RejectedBy(LastEval, "drawdown")

\* order_value = fixed_quantity * reference price
OrderValue(e) == config.fixed_quantity * e.event.price
\* the sum of quantity * latest price over the positions held
Exposure(e) ==
    SumExposure(DOMAIN e.before.positions, e.before.positions, EvalPrices(e))
OverCap(e) ==
    /\ config.max_position_size # None
    /\ OrderValue(e) > ValueOf(config.max_position_size)
OverFraction(e) ==
    OrderValue(e) * 100 > config.max_position_pct * EvalEquity(e)
ExposureOver(e, exposure) ==
    exposure * 100 > config.max_total_exposure_pct * EvalEquity(e)

\* C18 (as stated): an Intent of either side that passes the drawdown check
\* is rejected with check = "position_size" whenever its order value
\* exceeds the absolute cap, or exceeds max_position_pct of the current
\* equity, or the total exposure including this order exceeds
\* max_total_exposure_pct of the current equity, in every ledger state.
C18_PositionSizingEverySideEveryState ==
    (LastWasEval /\ ~Fails(LastEval, "drawdown")) =>
        LET e == LastEval
        IN  (\/ OverCap(e)
             \/ OverFraction(e)
             \/ ExposureOver(e, Exposure(e) + OrderValue(e)))
                => RejectedBy(e, "position_size")

\* C18 (amended): an Intent that passes the drawdown check is rejected with
\* check = "position_size" whenever its order value exceeds the absolute
\* cap, or, the current equity being positive, it exceeds max_position_pct
\* of the equity or the total exposure (plus the order value when the
\* Intent is a BUY, and alone when it is a SELL) exceeds
\* max_total_exposure_pct of the equity.
C18_PositionSizing ==
    (LastWasEval /\ ~Fails(LastEval, "drawdown")) =>
        LET e == LastEval
            exposure == IF e.event.direction = "BUY"
                        THEN Exposure(e) + OrderValue(e)
                        ELSE Exposure(e)
        IN  (\/ OverCap(e)
             \/ EvalEquity(e) > 0 /\ OverFraction(e)
             \/ EvalEquity(e) > 0 /\ ExposureOver(e, exposure))
                => RejectedBy(e, "position_size")

\* a BUY within the cap and the fraction of equity, rejected for the total
\* exposure it would bring
C18_Witness ==
    /\ LastWasEval
    /\ ~Fails(LastEval, "drawdown")
    /\ LastEval.event.direction = "BUY"
    /\ ~OverCap(LastEval)
    /\ ~OverFraction(LastEval)
    /\ EvalEquity(LastEval) > 0
    /\ ExposureOver(LastEval, Exposure(LastEval) + OrderValue(LastEval))
    /\ RejectedBy(LastEval, "position_size")

\* C19: with max_positions configured, a BUY Intent for a symbol with no
\* open position fails the position count check when the number of open
\* positions is at least max_positions, and is then rejected with
\* check = "position_count" unless an earlier check fails; a BUY for a
\* symbol that has a position, and any SELL, never fail this check and
\* are never rejected with check = "position_count".
C19_PositionCount ==
    LastWasEval =>
        LET e == LastEval
            held == DOMAIN e.before.positions
            opens_new == e.event.direction = "BUY" /\ e.event.symbol \notin held
            earlier_fails == \/ Fails(e, "drawdown")
                             \/ Fails(e, "position_size")
                             \/ Fails(e, "cash")
        IN  /\ (/\ config.max_positions # None
                /\ opens_new
                /\ Cardinality(held) >= ValueOf(config.max_positions)
                /\ ~earlier_fails)
                   => RejectedBy(e, "position_count")
            /\ ~opens_new => ~RejectedBy(e, "position_count")
            /\ config.max_positions = None => ~RejectedBy(e, "position_count")

\* a BUY of a second symbol refused for the count of positions, after a BUY
\* of the symbol already held was approved at the same count
C19_Witness ==
    /\ LastWasEval
    /\ NEvals >= 2
    /\ RejectedBy(LastEval, "position_count")
    /\ LET e == evals[NEvals - 1]
       IN  /\ Approved(e)
           /\ e.event.direction = "BUY"
           /\ e.event.symbol \in DOMAIN e.before.positions
           /\ e.before.positions = LastEval.before.positions

(***************************************************************************)
(* Properties of a run, stated on the evaluations made so far.             *)
(***************************************************************************)
\* the events handed to the ledger before the evaluation e
AppliedBefore(e) == {calls[k].event : k \in 1..e.ncalls}
\* the Observations scheduled for symbol s at time t
ObservationsOf(s, t) ==
    {puts[j] : j \in {k \in 1..Len(puts) :
                         /\ puts[k].type = "MarketEvent"
                         /\ puts[k].symbol = s
                         /\ puts[k].timestamp = t}}

\* C11: in a run, when handle_signal evaluates an Intent of time T, every
\* Observation scheduled with a time <= T and every Fill scheduled with a
\* time < T has been applied to the ledger, and the price the ledger holds
\* for each symbol is the one of its Observation of time T; this with
\* portfolio.handle_market registered before or after the strategies.
C11_ChecksReadPricesOfTheirTime ==
    \A i \in 1..NEvals :
        LET e == evals[i]
            T == e.event.timestamp
            applied == AppliedBefore(e)
        IN  /\ \A j \in 1..Len(puts) :
                  (\/ puts[j].type = "MarketEvent" /\ puts[j].timestamp <= T
                   \/ puts[j].type = "FillEvent" /\ puts[j].timestamp < T)
                      => puts[j] \in applied
            /\ \A s \in Symbols :
                  /\ s \in DOMAIN e.before.latest_prices
                  /\ \E o \in ObservationsOf(s, T) :
                        e.before.latest_prices[s] = o.price

\* with the strategies registered ahead of portfolio.handle_market: an
\* Intent of a time after 0 was evaluated on a ledger that had applied a
\* Fill of an earlier time, for a symbol whose price had changed since
C11_Witness ==
    /\ HandlersFor(handlers, "MarketEvent")[1] # PortfolioHandleMarket
    /\ \E i \in 1..NEvals :
          LET e == evals[i]
          IN  /\ e.event.timestamp > 0
              /\ e.before.trades # << >>
              /\ \E o \in ObservationsOf(e.event.symbol,
                                         e.event.timestamp - 1) :
                    o.price # e.event.price

(***************************************************************************)
(* Properties of Dispatcher, stated on the dispatch() calls made so far.   *)
(***************************************************************************)
\* the handlers registered for event_type by the first n register_handler
\* calls, in the order of those calls
RECURSIVE RegisteredFor(_, _)
RegisteredFor(event_type, n) ==
    IF n = 0 THEN << >>
    ELSE RegisteredFor(event_type, n - 1)
         \o (IF registrations[n][1] = event_type
             THEN <<registrations[n][2]>>
             ELSE << >>)

\* the lists returned by the handlers hs for the event, one after another
RECURSIVE Concatenation(_, _)
Concatenation(hs, event) ==
    IF hs = << >> THEN << >>
    ELSE Concatenation(SubSeq(hs, 1, Len(hs) - 1), event)
         \o StubResult(hs[Len(hs)], event).events

\* C20: dispatch(event) invokes the handlers registered for the type of the
\* event, each once and in the order of their registration, and returns
\* their returned lists one after another in that order, None and []
\* adding nothing; for a type without handlers it invokes none and returns
\* []; and it leaves the registry as it was.
C20_DispatchInRegistrationOrder ==
    \A i \in 1..Len(dispatches) :
        LET d == dispatches[i]
            registered == RegisteredFor(d.event.type, d.nregs)
        IN  /\ d.invoked = registered
            /\ d.returned = Concatenation(registered, d.event)
            /\ registered = << >> => d.returned = << >>
            /\ (i = Len(dispatches) /\ d.nregs = Len(registrations))
                   => handlers = d.registry

\* a dispatch to three handlers, the second of which returned None or [],
\* the first two events and the third one event
C20_Witness ==
    /\ \E i \in 1..Len(dispatches) :
          LET d == dispatches[i]
          IN  /\ Len(d.invoked) = 3
              /\ d.invoked[1][2] = "two"
              /\ d.invoked[2][2] \in {"none", "empty"}
              /\ d.invoked[3][2] = "one"
              /\ Len(d.returned) = 3
              /\ d.returned[3].type = "SignalEvent"

(***************************************************************************)
(* Properties of the execution handlers, stated on the handle_order calls  *)
(* made so far.                                                            *)
(***************************************************************************)
\* C21: ExecutionHandler.handle_order returns for every Order exactly one
\* Fill, whose timestamp, symbol, direction and quantity are the Order's
\* and whose fill_price is the Order's price; two calls with the same Order
\* return equal Fills.
C21_BaseExecutionOneToOne ==
    config.execution = "ExecutionHandler" =>
        /\ \A i \in DOMAIN handled_orders :
              LET order == handled_orders[i].event
                  fills == handled_orders[i].returned
              IN  /\ Len(fills) = 1
                  /\ fills[1].type = "FillEvent"
                  /\ fills[1].timestamp = order.timestamp
                  /\ fills[1].symbol = order.symbol
                  /\ fills[1].direction = order.direction
                  /\ fills[1].quantity = order.quantity
                  /\ fills[1].price = order.price
        /\ \A i, j \in DOMAIN handled_orders :
              handled_orders[i].event = handled_orders[j].event =>
                  handled_orders[i].returned = handled_orders[j].returned

\* the ExecutionHandler handled the same Sell order of two units twice
C21_Witness ==
    /\ config.execution = "ExecutionHandler"
    /\ Len(handled_orders) = 2
    /\ handled_orders[1].event = handled_orders[2].event
    /\ handled_orders[1].event.direction = "SELL"
    /\ handled_orders[1].event.quantity = 2

(***************************************************************************)
(* Properties of the error paths of PriorityEventQueue, stated on the      *)
(* calls that raised and on the state the last of them left.               *)
(***************************************************************************)
NErrors == Len(queue_errors)
LastError == queue_errors[NErrors]
\* the last call made on the queue is one that raised
LastWasError ==
    /\ NErrors > 0
    /\ LastError.nputs = Len(puts)
    /\ LastError.ngets = Len(gets)

\* C26: a get() raises IndexError exactly on the empty queue, and the call
\* leaves the queue empty and the insertion counter as it was; is_empty()
\* is true exactly when as many events have been got as have been put
\* (the puts counted are the ones that inserted an event).
C26_GetOnEmptyQueue ==
    /\ \A i \in 1..NErrors :
          queue_errors[i].op = "get" =>
              /\ queue_errors[i].error = "IndexError"
              /\ queue_errors[i].heap = << >>
    /\ (LastWasError /\ LastError.op = "get") =>
          /\ heap = << >>
          /\ counter = LastError.counter
    /\ IsEmpty <=> Len(puts) = Len(gets)

\* get() raised on a queue that had held two events and was drained
C26_Witness ==
    /\ LastWasError
    /\ LastError.op = "get"
    /\ Len(puts) = 2
    /\ Len(gets) = 2
    /\ counter = 2

\* C27: a put() of an event without a timestamp raises ValueError and
\* leaves the heap and the insertion counter as they were; every event in
\* the heap has a timestamp.
C27_PutWithoutTimestamp ==
    /\ \A i \in 1..NErrors :
          queue_errors[i].op = "put" => queue_errors[i].error = "ValueError"
    /\ (LastWasError /\ LastError.op = "put") =>
          /\ heap = LastError.heap
          /\ counter = LastError.counter
    /\ \A i \in DOMAIN heap : HasTimestamp(heap[i][4])
    /\ \A i \in DOMAIN puts : HasTimestamp(puts[i])

\* put() refused an object without a timestamp while the queue held an
\* event, after one event had been got
C27_Witness ==
    /\ LastWasError
    /\ LastError.op = "put"
    /\ Len(heap) = 1
    /\ Len(gets) = 1
    /\ counter = 2

(***************************************************************************)
(* Properties of the accounting of PortfolioState.handle_fill.             *)
(***************************************************************************)
\* C29: after any sequence of accepted fills, whenever the positions map
\* is empty, cash = initial_cash + realized_pnl.
C29_CashIsInitialPlusRealizedWhenFlat ==
    (positions = EmptyDict /\ \A i \in DOMAIN calls : ~calls[i].raised) =>
        RInt(cash) = RAdd(RInt(InitialCash), realized_pnl)

\* C30: after an accepted fill that leaves the symbol with a quantity other
\* than 0, new quantity = old quantity + signed quantity, the avg_cost is
\* the fill price when the symbol was flat before, and otherwise
\* avg_cost * new quantity = old avg_cost * old quantity
\* + fill price * signed quantity; cash has changed by
\* -signed quantity * fill price.
C30_AverageCostBlend ==
    (LastWasAcceptedFill /\ LastCall.event.symbol \in DOMAIN positions) =>
        LET pre == LastCall.before
            e == LastCall.event
            old_qty == HeldQty(pre, e.symbol)
            signed == IF e.direction = "BUY" THEN e.quantity ELSE -e.quantity
            new == positions[e.symbol]
        IN  /\ new.quantity = old_qty + signed
            /\ new.quantity # 0
            /\ IF old_qty = 0
               THEN new.avg_cost = RInt(e.price)
               ELSE RMulInt(new.avg_cost, new.quantity) =
                        RAdd(RMulInt(pre.positions[e.symbol].avg_cost, old_qty),
                             RInt(e.price * signed))
            /\ cash = pre.cash - signed * e.price

\* an accepted Sell of one unit at 2 reduced a long position of two units
\* bought at 1, after an earlier fill had opened it
C30_Witness ==
    /\ NCalls = 2
    /\ LastWasAcceptedFill
    /\ LastCall.event.direction = "SELL"
    /\ LastCall.event.price = 2
    /\ HeldQty(LastCall.before, LastCall.event.symbol) = 2
    /\ LastCall.before.positions[LastCall.event.symbol].avg_cost = RInt(1)
    /\ HeldQty(Ledger, LastCall.event.symbol) = 1

(***************************************************************************)
(* Properties of the equity samples a run leaves, stated on the calls the  *)
(* run made on the PortfolioState.                                         *)
(***************************************************************************)
\* the calls that wrote a sample for time t: every handle_market and
\* every handle_fill that did not raise
AppliedAt(t) ==
    {k \in DOMAIN calls : ~calls[k].raised /\ calls[k].event.timestamp = t}

SampledTimes ==
    {calls[k].event.timestamp : k \in {j \in DOMAIN calls : ~calls[j].raised}}

\* the keys of equity_by_timestamp in the order a dict holds them, the
\* order of their first insertion, after the first n calls
RECURSIVE KeyOrder(_)
KeyOrder(n) ==
    IF n = 0 THEN << >>
    ELSE LET prev == KeyOrder(n - 1)
             t == calls[n].event.timestamp
         IN  IF calls[n].raised \/ t \in Range(prev) THEN prev
             ELSE Append(prev, t)

\* the equity of the ledger right after call k
EquityAfterCall(k) ==
    LET after == IF k = NCalls THEN Ledger ELSE calls[k + 1].before
        prices == DictSet(calls[k].before.latest_prices,
                          calls[k].event.symbol, calls[k].event.price)
    IN  Equity(after.cash, after.positions, prices)

\* C23: after a run that drained the queue, equity_by_timestamp has a key
\* for exactly the times at which an Observation or an accepted Fill was
\* applied, its keys are in strictly increasing order, and the value for
\* time T is the equity right after the last Observation or accepted Fill
\* of time T.
C23_EquitySamplesPerLogicalTime ==
    run_state = "drained" =>
        LET keys == KeyOrder(NCalls)
        IN  /\ DOMAIN equity_by_timestamp = SampledTimes
            /\ Range(keys) = DOMAIN equity_by_timestamp
            /\ \A i \in 1..(Len(keys) - 1) : keys[i] < keys[i + 1]
            /\ \A t \in SampledTimes :
                  LET last == CHOOSE k \in AppliedAt(t) :
                                  \A j \in AppliedAt(t) : j <= k
                  IN  equity_by_timestamp[t] = EquityAfterCall(last)

\* a drained run with samples for two times, in which the last call of
\* time 1 was a Fill that left another equity than the last Observation of
\* time 1 had
C23_Witness ==
    /\ run_state = "drained"
    /\ DOMAIN equity_by_timestamp = {0, 1}
    /\ \E k \in AppliedAt(1) :
          /\ calls[k].op = "handle_fill"
          /\ \A j \in AppliedAt(1) : j <= k
          /\ \E m \in AppliedAt(1) :
                /\ calls[m].op = "handle_market"
                /\ \A j \in AppliedAt(1) :
                      calls[j].op = "handle_market" => j <= m
                /\ EquityAfterCall(m) # EquityAfterCall(k)

(***************************************************************************)
(* Properties of the handling of a symbol that has had no Observation.     *)
(***************************************************************************)
\* a handle_market call for symbol s is among the first n ledger calls
Observed(s, n) ==
    \E k \in 1..n : calls[k].op = "handle_market" /\ calls[k].event.symbol = s

\* C25: a Fill applied, or an Intent evaluated, for a symbol that has had
\* no Observation ends in an error: handle_fill raises, and handle_signal
\* neither returns an Order nor records a rejection.
C25_MissingLatestPriceFailsFast ==
    /\ \A k \in DOMAIN calls :
          (calls[k].op = "handle_fill"
           /\ ~Observed(calls[k].event.symbol, k - 1)) => calls[k].raised
    /\ \A i \in 1..NEvals :
          ~Observed(evals[i].event.symbol, evals[i].ncalls) =>
              /\ ~Approved(evals[i])
              /\ Recorded(evals[i],
                          IF i = NEvals THEN rejections
                          ELSE evals[i + 1].rejections) = << >>

(***************************************************************************)
(* Termination of the event loop.                                          *)
(***************************************************************************)
\* C22: the loop of a run whose fills the ledger accepts reaches the
\* drained state, the queue empty, whatever the seeded Observations, the
\* Intents the strategies emit for them and the Intents rejected.  Under
\* SpecRunFair (a turn of the loop that is possible is taken); with the
\* configuration of main() no run of it ends on a refused fill.
C22_RunDrains == <>(run_state = "drained" /\ IsEmpty)

\* a run drained after an Intent had been rejected and another approved
C22_Witness ==
    /\ run_state = "drained"
    /\ rejections # << >>
    /\ \E i \in 1..NEvals : Approved(evals[i])

(***************************************************************************)
(* Runs of main() with several symbols at one logical_time.                *)
(***************************************************************************)
\* C28: in a run whose Orders all come from RealRiskManager approvals and
\* are filled by the base ExecutionHandler, handle_fill never raises
\* InsufficientCash: every handle_fill call made is accepted.
C28_ApprovedFillsAreAccepted ==
    \A i \in 1..Len(calls) :
        calls[i].op = "handle_fill" => ~calls[i].raised

\* C24: two runs that differ only in the order in which the Observations
\* of one logical_time were put end with the same cash, positions,
\* realized_pnl, equity samples and set of rejected Intents.
C24_SeedingOrderDoesNotMatter ==
    (first_run # None /\ RunEnded) =>
        LET first == ValueOf(first_run)
        IN  /\ cash = first.cash
            /\ positions = first.positions
            /\ realized_pnl = first.realized_pnl
            /\ equity_by_timestamp = first.equity_samples
            /\ Range(rejections) = first.rejected

(***************************************************************************)
(* A fill that takes a position through zero.                              *)
(***************************************************************************)
\* the last call was an accepted fill against a position of the opposite
\* sign and of a smaller size
LastWasFlip ==
    /\ LastWasAcceptedFill
    /\ LET held == HeldQty(LastCall.before, LastCall.event.symbol)
           signed == SignedQty(LastCall.event.direction,
                               LastCall.event.quantity)
       IN  held * signed < 0 /\ Abs(signed) > Abs(held)

\* C31: after an accepted fill that flips a position through zero, the
\* position has quantity existing + signed and its avg_cost is the fill
\* price, the price at which the remaining side was opened.
C31_FlipRepricesRemainingSide ==
    LastWasFlip =>
        LET e == LastCall.event
            held == HeldQty(LastCall.before, e.symbol)
        IN  /\ e.symbol \in DOMAIN positions
            /\ positions[e.symbol].quantity
                   = held + SignedQty(e.direction, e.quantity)
            /\ positions[e.symbol].avg_cost = RInt(e.price)

(***************************************************************************)
(* The position count limit over a run.                                    *)
(***************************************************************************)
\* C32: with max_positions = M configured, the ledger of a run whose
\* Orders all come from RealRiskManager approvals never holds more than M
\* open positions.
C32_OpenPositionsWithinLimit ==
    config.max_positions # None =>
        Cardinality(DOMAIN positions) <= ValueOf(config.max_positions)

(***************************************************************************)
(* Runs filled by the RealisticExecutionHandler.                           *)
(***************************************************************************)
\* C33: in a run whose Orders all come from RealRiskManager approvals and
\* are filled by the RealisticExecutionHandler, handle_fill never raises
\* InsufficientCash: the loop is never left on a ValueError.
C33_CostedFillsAreAffordable ==
    /\ run_state # "failed"
    /\ \A i \in 1..Len(calls) :
           (calls[i].op = "handle_fill" /\ calls[i].event.direction = "BUY")
               => ~calls[i].raised

(***************************************************************************)
(* Conservation of events over a run.                                      *)
(***************************************************************************)
Occurrences(seq, x) == Cardinality({i \in DOMAIN seq : seq[i] = x})

NumberOf(seq, type) == Cardinality({i \in DOMAIN seq : seq[i].type = type})

FillCalls == SelectSeq(calls, LAMBDA c : c.op = "handle_fill")

\* C34: every event a handler returned has been put (stated on the last
\* evaluation and the last handle_order call; the histories only grow);
\* and at the end of a
\* drained run every event put was dispatched exactly once, the fills in
\* the fill history are as many as the Orders emitted and as the Intents
\* emitted less the rejections, and the fill history is the list of the
\* handle_fill calls made, one call for each FillEvent put.
C34_NoLostOrDoubledEvents ==
    /\ evals # << >> =>
           \A k \in 1..Len(evals[Len(evals)].returned) :
               \E j \in 1..Len(puts) :
                   puts[j] = evals[Len(evals)].returned[k]
    /\ handled_orders # << >> =>
           \A k \in 1..Len(handled_orders[Len(handled_orders)].returned) :
               \E j \in 1..Len(puts) :
                   puts[j] = handled_orders[Len(handled_orders)].returned[k]
    /\ run_state = "drained" =>
           /\ Len(gets) = Len(puts)
           /\ \A i \in 1..Len(puts) :
                  Cardinality({k \in 1..Len(gets) : Dispatched(k) = puts[i]})
                      = Occurrences(puts, puts[i])
           /\ Len(trades) = NumberOf(puts, "OrderEvent")
           /\ Len(trades) = NumberOf(puts, "SignalEvent") - Len(rejections)
           /\ Len(FillCalls) = Len(trades)
           /\ \A i \in 1..Len(trades) :
                  /\ FillCalls[i].event = trades[i]
                  /\ ~FillCalls[i].raised
           /\ NumberOf(puts, "FillEvent") = Len(trades)

\* a drained run with a rejected Intent and two fills applied
C34_Witness ==
    /\ run_state = "drained"
    /\ rejections # << >>
    /\ Len(trades) >= 2
    /\ NumberOf(puts, "SignalEvent") > Len(trades)

(***************************************************************************)
(* The cash check behind the drawdown and position size checks.            *)
(***************************************************************************)
\* max_total_exposure_pct <= 1 and max_drawdown < 1
ExposureWithinEquity ==
    config.max_total_exposure_pct <= 100 /\ config.max_drawdown_pct < 100

C36_PeakEquityMonotone ==
    /\ peak_equity >= config.initial_cash
    /\ IF NEvals = 0
       THEN peak_equity = config.initial_cash
       ELSE /\ LastEval.peak >= config.initial_cash
            /\ peak_equity >= LastEval.peak
            /\ peak_equity >= EvalEquity(LastEval)
            /\ peak_equity = NewPeak(LastEval.peak, EvalEquity(LastEval))

\* an Observation or a Fill made after an evaluation has taken the equity
\* of the ledger above the peak
C36_Witness ==
    /\ NEvals > 0
    /\ ~LastWasEval
    /\ CurrentEquity(cash, positions, latest_prices) > peak_equity

(***************************************************************************)
(* Every open position has a latest price.                                 *)
(***************************************************************************)
\* C37: every symbol with an open position has an entry in latest_prices,
\* so the mark-to-market equity counts every open position and equals cash
\* + the total exposure the risk manager computes (the sum of quantity *
\* latest price over all positions, 0 for a missing price).
C37_OpenPositionsArePriced ==
    /\ DOMAIN positions \subseteq DOMAIN latest_prices
    /\ Equity(cash, positions, latest_prices)
           = cash + SumValues(DOMAIN positions, positions, latest_prices)
    /\ Equity(cash, positions, latest_prices)
           = cash + SumExposure(DOMAIN positions, positions, latest_prices)
    /\ CurrentEquity(cash, positions, latest_prices)
           = cash + SumExposure(DOMAIN positions, positions, latest_prices)

\* two open positions, one of them marked at a price other than the price
\* of the fill that opened it
C37_Witness ==
    /\ Cardinality(DOMAIN positions) = 2
    /\ \E s \in DOMAIN positions :
          RInt(latest_prices[s]) # positions[s].avg_cost

(***************************************************************************)
(* The cost model of RealisticExecutionHandler.                            *)
(***************************************************************************)
\* reference_price * (spread/2 + base slippage + impact * quantity + r)
ClaimedCost(order, r) ==
    Rat(order.price * (config.spread_ppm
                       + 2 * (config.base_slippage_ppm
                              + config.impact_ppm * order.quantity + r)),
        2000000)

\* |a - b| < k thousandths of a dollar, for a price a of the model
WithinGrid(a, b, k) ==
    LET d == RSub(RInt(a), b)
    IN  Abs(d[1]) < k * d[2]

\* C38: for every Order handled by RealisticExecutionHandler with the draw
\* r, the fill price computed is reference price + cost for a Buy and
\* reference price - cost for a Sell, cost = reference price * (spread / 2
\* + base slippage + impact * quantity + r); the Fill returned carries that
\* price (to the thousandth the model keeps, each of its three terms cut to
\* it) and the Order's timestamp, symbol, direction and quantity; and the
\* same Order with the same draw is filled alike whatever the cost totals
\* and the trade count have become.
C38_CostModelFillPrice ==
    config.execution = "RealisticExecutionHandler" =>
        /\ \A i \in DOMAIN handled_orders :
              LET h == handled_orders[i]
                  order == h.event
                  fill == h.returned[1]
                  computed == CalculateFillPrice(order, h.draw, config)
              IN  /\ computed =
                         IF order.direction = "BUY"
                         THEN RAdd(RInt(order.price), ClaimedCost(order, h.draw))
                         ELSE RSub(RInt(order.price), ClaimedCost(order, h.draw))
                  /\ Len(h.returned) = 1
                  /\ WithinGrid(fill.price, computed, 3)
                  /\ fill.type = "FillEvent"
                  /\ fill.timestamp = order.timestamp
                  /\ fill.symbol = order.symbol
                  /\ fill.direction = order.direction
                  /\ fill.quantity = order.quantity
                  /\ h.count = i - 1
        /\ \A i, j \in DOMAIN handled_orders :
              (/\ handled_orders[i].event = handled_orders[j].event
               /\ handled_orders[i].draw = handled_orders[j].draw)
                  => handled_orders[i].returned = handled_orders[j].returned

\* the same Sell of two units handled twice with the same negative draw,
\* the totals having grown in between
C38_Witness ==
    /\ config.execution = "RealisticExecutionHandler"
    /\ Len(handled_orders) = 2
    /\ handled_orders[1].event = handled_orders[2].event
    /\ handled_orders[1].draw = handled_orders[2].draw
    /\ handled_orders[1].draw < 0
    /\ handled_orders[1].event.direction = "SELL"
    /\ handled_orders[1].event.quantity = 2
    /\ handled_orders[2].count = 1

(***************************************************************************)
(* TradeMetrics.                                                           *)
(***************************************************************************)
\* the fills of symbol s are round trips: BUY, SELL, BUY, ... with each SELL
\* of the quantity of the BUY before it
SymbolFills(fills, s) == SelectSeq(fills, LAMBDA f : f.symbol = s)

IsRoundTrips(fills) ==
    \A s \in Symbols :
       LET own == SymbolFills(fills, s)
       IN  \A k \in DOMAIN own :
              IF k % 2 = 1
              THEN own[k].direction = "BUY"
              ELSE /\ own[k].direction = "SELL"
                   /\ own[k].quantity = own[k - 1].quantity

\* the fill of symbol s last before fills[i]
LastOfSymbolBefore(fills, i) ==
    LET earlier == {k \in 1..(i - 1) : fills[k].symbol = fills[i].symbol}
    IN  fills[CHOOSE k \in earlier : \A m \in earlier : m <= k]

\* one entry per closing SELL, in their order: (sell price - the buy price
\* of the same symbol) * quantity
RECURSIVE RoundTripPnlsFrom(_, _)
RoundTripPnlsFrom(fills, i) ==
    IF i > Len(fills) THEN << >>
    ELSE IF fills[i].direction = "SELL"
         THEN <<(fills[i].price - LastOfSymbolBefore(fills, i).price)
                * fills[i].quantity>>
              \o RoundTripPnlsFrom(fills, i + 1)
         ELSE RoundTripPnlsFrom(fills, i + 1)

\* a round trip is closed right after a fill of another symbol
Interleaved(fills) ==
    \E i \in DOMAIN fills :
       /\ fills[i].direction = "SELL"
       /\ fills[i - 1].symbol # fills[i].symbol

\* C39: for a list of fills made of round trips per symbol, those of
\* different symbols interleaving, TradeMetrics is constructed without an
\* error and trade_pnls holds one entry per closing SELL, in their order,
\* (sell price - buy price of the same symbol) * quantity.
C39_TradePnlsPairPerSymbol ==
    (/\ metrics # None
     /\ IsRoundTrips(ValueOf(metrics).fills)
     /\ Interleaved(ValueOf(metrics).fills)) =>
        /\ ValueOf(metrics).raised = "none"
        /\ ValueOf(metrics).trade_pnls
              = RoundTripPnlsFrom(ValueOf(metrics).fills, 1)

(***************************************************************************)
(* EquityAnalyzer.                                                         *)
(***************************************************************************)
\* the largest (running peak - equity) / running peak over curve from
\* curve[i] on, the running peak so far being peak and the largest so far
\* being largest
RECURSIVE LargestDeclineFrom(_, _, _, _)
LargestDeclineFrom(curve, i, peak, largest) ==
    IF i > Len(curve) THEN largest
    ELSE LET new_peak == Max(peak, curve[i])
             decline == Rat(new_peak - curve[i], new_peak)
         IN  LargestDeclineFrom(curve, i + 1, new_peak,
                                IF RLeq(largest, decline) THEN decline
                                ELSE largest)

AnalyzerRan ==
    /\ analyzer # None
    /\ ValueOf(analyzer).ran
    /\ ValueOf(analyzer).n_events = Len(ValueOf(analyzer).equity_curve)

\* C40: after run() on an equity curve with one value per market event,
\* max_drawdown is the largest (running peak - equity) / running peak over
\* the curve, the running peak starting at initial_cash: a non-negative
\* fraction.
C40_MaxDrawdownIsLargestDecline ==
    AnalyzerRan =>
        LET a == ValueOf(analyzer)
        IN  /\ a.max_drawdown
                  = LargestDeclineFrom(a.equity_curve, 1, a.initial_cash, RInt(0))
            /\ RLeq(RInt(0), a.max_drawdown)

=============================================================================
